---- MODULE Spec2Model ----
(***************************************************************************)
(* Verification model of the SAT-based multi-robot warehouse path planner  *)
(* (src/main.py): the variable allocator, the six clause builders, the     *)
(* solver adapter and the decoder, driven by solve_warehouse_problem.      *)
(*                                                                         *)
(* A Position is the pair <<x, y>>; a Robot is the record                  *)
(* [id, start, goal].  A variable name is the sequence of characters that  *)
(* the f-string R{id}X{x}Y{y}T{t} produces.  A clause is a sequence of     *)
(* non-zero integers, the formula a sequence of clauses.                   *)
(***************************************************************************)
EXTENDS Integers, Sequences, FiniteSets, TLC

VARIABLES
    width, height, robots, obstacles, time_horizon,  \* arguments of solve_warehouse_problem
    pc,            \* the statement solve_warehouse_problem is about to execute
    constructed,   \* TRUE once WarehousePathPlanner.__init__ has run
    var_map,       \* planner.var_map, in insertion order: sequence of <<name, number>>
    next_var,      \* planner.next_var
    cnf,           \* planner.cnf.clauses
    solution,      \* the dictionary planner.solve returned, in insertion order
    paths,         \* the dictionary decode_solution builds: robot id -> path
    outcome,       \* "running", "ValueError", "None" or "paths"
    solver_calls,  \* how many times a Glucose3 instance has been asked to solve
    formula,       \* the formula handed to to_dimacs / write_cnf: [var_map_len, clauses]
    file,          \* the text of the DIMACS file, a sequence of characters
    file_clauses,  \* SATFileUtils.clauses (self.clauses of the file utility)
    io_call,       \* the file utility that is called: "none", "to_dimacs", "write_cnf", "read_cnf"
    io_pc,         \* "idle", "call", "returned" or "raised"
    io_error,      \* the exception a file utility raised, or "none"
    requested,     \* the create_variable calls made on the planner from outside the
                   \* builders, in order: sequence of <<<<robot_id, x, y, t>>, returned id>>
    solver_held    \* TRUE while a Glucose3 instance is alive inside planner.solve

inputs == <<width, height, robots, obstacles, time_horizon>>
planner == <<constructed, var_map, next_var, cnf>>
files == <<formula, file, file_clauses, io_call, io_pc, io_error>>
calls == <<requested, solver_held>>
vars == <<width, height, robots, obstacles, time_horizon, pc, constructed,
          var_map, next_var, cnf, solution, paths, outcome, solver_calls,
          formula, file, file_clauses, io_call, io_pc, io_error,
          requested, solver_held>>

\* no file utility is in use, no create_variable call from outside, no solver alive
NoFileCall ==
    /\ formula = [var_map_len |-> 0, clauses |-> <<>>]
    /\ file = <<>>
    /\ file_clauses = <<>>
    /\ io_call = "none"
    /\ io_pc = "idle"
    /\ io_error = "none"
    /\ requested = <<>>
    /\ solver_held = FALSE

----------------------------------------------------------------------------
(* Bounds of the explored inputs *)

\* the largest time horizon and the largest number of obstacles
MaxT == 2
MaxObstacles == 1

\* The grid sizes <<width, height>> the explored inputs use (0 is an invalid size).
GridSizes == (0..2) \X (0..2)

\* The lists of robot ids the explored inputs use (ids are unique integers: one
\* digit, two digits, negative).
IdLists == { <<>>, <<1>>, <<-1>>, <<1, 10>>, <<1, -1>> }

----------------------------------------------------------------------------
(* Generic helpers *)

RECURSIVE Flatten(_)
Flatten(ss) == IF ss = <<>> THEN <<>> ELSE Head(ss) \o Flatten(Tail(ss))

Abs(n) == IF n < 0 THEN -n ELSE n

\* itertools.combinations(s, 2): the pairs <<s[i], s[j]>>, i < j, in lexicographic order
Combinations2(s) ==
    Flatten([i \in 1..Len(s) |-> [d \in 1..(Len(s) - i) |-> <<s[i], s[i + d]>>]])

\* the cells of the grid in the order of `for x in range(width): for y in range(height)`
GridCells(w, h) ==
    Flatten([i \in 1..w |-> [j \in 1..h |-> <<i - 1, j - 1>>]])

\* 0 <= x < width and 0 <= y < height
InBounds(p, w, h) == 0 <= p[1] /\ p[1] < w /\ 0 <= p[2] /\ p[2] < h

\* (mutant of Moves: a diagonal move slipped into the list)
Moves_Diagonal == << <<0, 0>>, <<0, 1>>, <<1, 0>>, <<0, -1>>, <<-1, 0>>, <<1, 1>> >>

\* self.moves
Moves == << <<0, 0>>, <<0, 1>>, <<1, 0>>, <<0, -1>>, <<-1, 0>> >>

----------------------------------------------------------------------------
(* Variable names: formatting and parsing *)

DigitChars == <<"0", "1", "2", "3", "4", "5", "6", "7", "8", "9">>

IsDigit(c) == \E d \in 1..10 : DigitChars[d] = c

DigitValue(c) == (CHOOSE d \in 1..10 : DigitChars[d] = c) - 1

\* str(n) for an integer n, as a sequence of characters
RECURSIVE NatStr(_)
NatStr(n) == IF n < 10 THEN <<DigitChars[n + 1]>>
             ELSE NatStr(n \div 10) \o <<DigitChars[(n % 10) + 1]>>

IntStr(n) == IF n < 0 THEN <<"-">> \o NatStr(-n) ELSE NatStr(n)

\* f"R{robot_id}X{x}Y{y}T{t}"
VarName(robot_id, x, y, t) ==
    <<"R">> \o IntStr(robot_id) \o <<"X">> \o IntStr(x) \o <<"Y">> \o IntStr(y)
            \o <<"T">> \o IntStr(t)

\* "".join(c if c.isdigit() else " " for c in var_name).split(), then int() of
\* each piece: the maximal runs of digits of the name, as numbers, in order.
RECURSIVE ScanNumbers(_, _, _, _)
ScanNumbers(name, i, cur, inrun) ==
    IF i > Len(name) THEN (IF inrun THEN <<cur>> ELSE <<>>)
    ELSE IF IsDigit(name[i])
         THEN ScanNumbers(name, i + 1, (IF inrun THEN cur * 10 ELSE 0) + DigitValue(name[i]), TRUE)
         ELSE (IF inrun THEN <<cur>> ELSE <<>>) \o ScanNumbers(name, i + 1, 0, FALSE)

ParseNumbers(name) == ScanNumbers(name, 1, 0, FALSE)

----------------------------------------------------------------------------
(* The variable allocator and the formula sink.  A planner state is the    *)
(* record [var_map, next_var, cnf].                                        *)

\* WarehousePathPlanner.__init__
NewPlanner == [var_map |-> <<>>, next_var |-> 1, cnf |-> <<>>]

\* key in self.var_map
HasKey(vm, key) == \E i \in 1..Len(vm) : vm[i][1] = key

\* self.var_map[key]
Lookup(vm, key) == vm[CHOOSE i \in 1..Len(vm) : vm[i][1] = key][2]

\* (mutant of CreateVariable: the test "key not in self.var_map" is missing)
CreateVariable_AlwaysNew(st, k) ==
    [st EXCEPT !.var_map = Append(@, <<VarName(k[1], k[2], k[3], k[4]), st.next_var>>),
               !.next_var = @ + 1]

\* create_variable(robot_id, x, y, t), k = <<robot_id, x, y, t>>: the planner afterwards
CreateVariable(st, k) ==
    LET key == VarName(k[1], k[2], k[3], k[4])
    IN  IF ~HasKey(st.var_map, key)
        THEN [st EXCEPT !.var_map = Append(@, <<key, st.next_var>>),
                        !.next_var = @ + 1]
        ELSE st

\* the number create_variable returned for k (k has been created)
VarOf(st, k) == Lookup(st.var_map, VarName(k[1], k[2], k[3], k[4]))

\* self.cnf.append(clause), the clause given as signed variable requests <<sign, k>>
AppendClause(st, lits) ==
    [st EXCEPT !.cnf = Append(@, [j \in 1..Len(lits) |-> lits[j][1] * VarOf(st, lits[j][2])])]

\* A builder is the sequence of its create_variable calls, <<"var", k>>, and of its
\* cnf.append calls, <<"clause", lits>>, in program order; RunOps executes
\* ops[lo..hi] in that order (split in halves to keep the evaluation shallow).
RunOp(st, op) == IF op[1] = "var" THEN CreateVariable(st, op[2]) ELSE AppendClause(st, op[2])

RECURSIVE RunOpsRange(_, _, _, _)
RunOpsRange(st, ops, lo, hi) ==
    IF lo > hi THEN st
    ELSE IF lo = hi THEN RunOp(st, ops[lo])
    ELSE LET mid == (lo + hi) \div 2
             left == RunOpsRange(st, ops, lo, mid)
         IN  \* (the test makes the first half be evaluated before the second)
             IF left.next_var >= 1 THEN RunOpsRange(left, ops, mid + 1, hi) ELSE left

RunOps(st, ops) == RunOpsRange(st, ops, 1, Len(ops))

VarOp(robot_id, p, t) == <<"var", <<robot_id, p[1], p[2], t>>>>
Pos(robot_id, p, t) == <<1, <<robot_id, p[1], p[2], t>>>>
Neg(robot_id, p, t) == <<-1, <<robot_id, p[1], p[2], t>>>>
ClauseOp(lits) == <<"clause", lits>>

----------------------------------------------------------------------------
(* The clause builders *)

\* add_initial_positions
InitialPositionsOps(rs, w, h) ==
    Flatten([r \in 1..Len(rs) |->
        <<VarOp(rs[r].id, rs[r].start, 0), ClauseOp(<<Pos(rs[r].id, rs[r].start, 0)>>)>>
        \o Flatten([c \in 1..(w * h) |->
              LET p == GridCells(w, h)[c]
              IN  <<VarOp(rs[r].id, p, 0)>>
                  \o (IF p[1] # rs[r].start[1] \/ p[2] # rs[r].start[2]
                      THEN <<ClauseOp(<<Neg(rs[r].id, p, 0)>>)>> ELSE <<>>)])])

\* (mutant of GoalPositionsOps: the goal is pinned one time step early)
GoalPositionsOps_OneStepEarly(rs, w, h, T) ==
    LET T1 == IF T > 0 THEN T - 1 ELSE 0
    IN  Flatten([r \in 1..Len(rs) |->
            <<VarOp(rs[r].id, rs[r].goal, T1), ClauseOp(<<Pos(rs[r].id, rs[r].goal, T1)>>)>>
            \o Flatten([c \in 1..(w * h) |->
                  LET p == GridCells(w, h)[c]
                  IN  IF p[1] # rs[r].goal[1] \/ p[2] # rs[r].goal[2]
                      THEN <<VarOp(rs[r].id, p, T1), ClauseOp(<<Neg(rs[r].id, p, T1)>>)>>
                      ELSE <<>>])])

\* add_goal_positions
GoalPositionsOps(rs, w, h, T) ==
    Flatten([r \in 1..Len(rs) |->
        <<VarOp(rs[r].id, rs[r].goal, T), ClauseOp(<<Pos(rs[r].id, rs[r].goal, T)>>)>>
        \o Flatten([c \in 1..(w * h) |->
              LET p == GridCells(w, h)[c]
              IN  IF p[1] # rs[r].goal[1] \/ p[2] # rs[r].goal[2]
                  THEN <<VarOp(rs[r].id, p, T), ClauseOp(<<Neg(rs[r].id, p, T)>>)>>
                  ELSE <<>>])])

\* (mutant of ObstacleOps: the obstacle is forbidden at time 0 only)
ObstacleOps_FirstStepOnly(o, rs, T) ==
    Flatten([r \in 1..Len(rs) |->
        <<VarOp(rs[r].id, o, 0), ClauseOp(<<Neg(rs[r].id, o, 0)>>)>>])

\* (mutant of ObstacleOps: x and y of the obstacle exchanged)
ObstacleOps_Transposed(o, rs, T) ==
    Flatten([r \in 1..Len(rs) |->
        Flatten([t \in 1..(T + 1) |->
            <<VarOp(rs[r].id, <<o[2], o[1]>>, t - 1),
              ClauseOp(<<Neg(rs[r].id, <<o[2], o[1]>>, t - 1)>>)>>])])

\* add_obstacle_constraints, the body of the loop for one in-bounds obstacle
ObstacleOps(o, rs, T) ==
    Flatten([r \in 1..Len(rs) |->
        Flatten([t \in 1..(T + 1) |->
            <<VarOp(rs[r].id, o, t - 1), ClauseOp(<<Neg(rs[r].id, o, t - 1)>>)>>])])

\* add_obstacle_constraints over the obstacles in iteration order obs, up to the first
\* one outside the bounds (where the method raises)
RECURSIVE ObstaclePrefix(_, _, _)
ObstaclePrefix(obs, w, h) ==
    IF obs = <<>> \/ ~InBounds(Head(obs), w, h) THEN <<>>
    ELSE <<Head(obs)>> \o ObstaclePrefix(Tail(obs), w, h)

ObstacleConstraintsOps(obs, rs, w, h, T) ==
    LET done == ObstaclePrefix(obs, w, h)
    IN  Flatten([i \in 1..Len(done) |-> ObstacleOps(done[i], rs, T)])

\* add_obstacle_constraints raises ValueError
ObstacleRaises(obs, w, h) == \E i \in 1..Len(obs) : ~InBounds(obs[i], w, h)

\* (mutant of NextCells: the waiting move (0, 0) left out)
NextCells_NoWait(p, w, h) ==
    LET cand == [m \in 1..(Len(Moves) - 1) |->
                    <<p[1] + Moves[m + 1][1], p[2] + Moves[m + 1][2]>>]
    IN  Flatten([m \in 1..Len(cand) |->
            IF InBounds(cand[m], w, h) THEN <<cand[m]>> ELSE <<>>])

\* the in-bounds cells p + move, for the moves in order
NextCells(p, w, h) ==
    LET cand == [m \in 1..Len(Moves) |-> <<p[1] + Moves[m][1], p[2] + Moves[m][2]>>]
    IN  Flatten([m \in 1..Len(cand) |->
            IF InBounds(cand[m], w, h) THEN <<cand[m]>> ELSE <<>>])

\* add_movement_constraints: positions_at_t and the "at least one position" clause
AtLeastOneOps(id, t, w, h) ==
    LET cells == GridCells(w, h)
    IN  [c \in 1..Len(cells) |-> VarOp(id, cells[c], t)]
        \o <<ClauseOp([c \in 1..Len(cells) |-> Pos(id, cells[c], t)])>>

\* add_movement_constraints: the "at most one position" clauses
AtMostOneOps(id, t, w, h) ==
    LET pairs == Combinations2(GridCells(w, h))
    IN  [q \in 1..Len(pairs) |->
           ClauseOp(<<Neg(id, pairs[q][1], t), Neg(id, pairs[q][2], t)>>)]

\* (mutant of KinematicOps: the variables are created, the implication is not added)
KinematicOps_NoImplication(id, t, w, h) ==
    LET cells == GridCells(w, h)
    IN  Flatten([c \in 1..Len(cells) |->
            LET nxt == NextCells(cells[c], w, h)
            IN  <<VarOp(id, cells[c], t)>>
                \o [n \in 1..Len(nxt) |-> VarOp(id, nxt[n], t + 1)]])

\* add_movement_constraints: the movement clauses from time t to t + 1
KinematicOps(id, t, w, h) ==
    LET cells == GridCells(w, h)
    IN  Flatten([c \in 1..Len(cells) |->
            LET nxt == NextCells(cells[c], w, h)
            IN  <<VarOp(id, cells[c], t)>>
                \o [n \in 1..Len(nxt) |-> VarOp(id, nxt[n], t + 1)]
                \o (IF nxt # <<>>
                    \* add_implication
                    THEN <<ClauseOp(<<Neg(id, cells[c], t)>>
                                    \o [n \in 1..Len(nxt) |-> Pos(id, nxt[n], t + 1)])>>
                    ELSE <<>>)])

\* (mutant of MovementStepOps: the movement clauses of the step come first)
MovementStepOps_KinematicFirst(id, t, w, h, T) ==
    (IF t < T THEN KinematicOps(id, t, w, h) ELSE <<>>)
    \o AtLeastOneOps(id, t, w, h)
    \o AtMostOneOps(id, t, w, h)

\* add_movement_constraints, the body for one robot and one time step
MovementStepOps(id, t, w, h, T) ==
    AtLeastOneOps(id, t, w, h)
    \o AtMostOneOps(id, t, w, h)
    \o (IF t < T THEN KinematicOps(id, t, w, h) ELSE <<>>)

\* add_movement_constraints
MovementConstraintsOps(rs, w, h, T) ==
    Flatten([r \in 1..Len(rs) |->
        Flatten([t \in 1..(T + 1) |-> MovementStepOps(rs[r].id, t - 1, w, h, T)])])

\* (mutant of CollisionAvoidanceOps: range(time_horizon), the last time step left out)
CollisionAvoidanceOps_SkipLast(rs, w, h, T) ==
    LET cells == GridCells(w, h)
    IN  Flatten([t \in 1..T |->
            Flatten([c \in 1..Len(cells) |->
                [r \in 1..Len(rs) |-> VarOp(rs[r].id, cells[c], t - 1)]
                \o (LET pairs == Combinations2(rs)
                    IN  [q \in 1..Len(pairs) |->
                           ClauseOp(<<Neg(pairs[q][1].id, cells[c], t - 1),
                                      Neg(pairs[q][2].id, cells[c], t - 1)>>)])])])

\* (mutant of CollisionAvoidanceOps: a cell is also closed to the other robots in the
\* step after a robot was in it)
CollisionAvoidanceOps_NoFollowing(rs, w, h, T) ==
    LET cells == GridCells(w, h)
        pairs == Combinations2(rs)
    IN  Flatten([t \in 1..(T + 1) |->
            Flatten([c \in 1..Len(cells) |->
                [r \in 1..Len(rs) |-> VarOp(rs[r].id, cells[c], t - 1)]
                \o [q \in 1..Len(pairs) |->
                       ClauseOp(<<Neg(pairs[q][1].id, cells[c], t - 1),
                                  Neg(pairs[q][2].id, cells[c], t - 1)>>)]
                \o (IF t <= T
                    THEN Flatten([q \in 1..Len(pairs) |->
                            << ClauseOp(<<Neg(pairs[q][1].id, cells[c], t - 1),
                                          Neg(pairs[q][2].id, cells[c], t)>>),
                               ClauseOp(<<Neg(pairs[q][2].id, cells[c], t - 1),
                                          Neg(pairs[q][1].id, cells[c], t)>>) >>])
                    ELSE <<>>)])])

\* add_collision_avoidance
CollisionAvoidanceOps(rs, w, h, T) ==
    LET cells == GridCells(w, h)
    IN  Flatten([t \in 1..(T + 1) |->
            Flatten([c \in 1..Len(cells) |->
                [r \in 1..Len(rs) |-> VarOp(rs[r].id, cells[c], t - 1)]
                \o (LET pairs == Combinations2(rs)
                    IN  [q \in 1..Len(pairs) |->
                           ClauseOp(<<Neg(pairs[q][1].id, cells[c], t - 1),
                                      Neg(pairs[q][2].id, cells[c], t - 1)>>)])])])

\* (mutant of PositionSwitchingOps: range(time_horizon - 1), the last step left out)
PositionSwitchingOps_SkipLast(rs, w, h, T) ==
    LET cells == GridCells(w, h)
        pairs == Combinations2(rs)
    IN  Flatten([t \in 1..(T - 1) |->
            Flatten([c \in 1..Len(cells) |->
                \* self.moves[1:]
                Flatten([m \in 1..(Len(Moves) - 1) |->
                    LET p1 == cells[c]
                        p2 == <<p1[1] + Moves[m + 1][1], p1[2] + Moves[m + 1][2]>>
                    IN  IF InBounds(p2, w, h)
                        THEN Flatten([q \in 1..Len(pairs) |->
                                LET r1 == pairs[q][1].id
                                    r2 == pairs[q][2].id
                                IN  << VarOp(r1, p1, t - 1), VarOp(r2, p2, t - 1),
                                       VarOp(r1, p2, t), VarOp(r2, p1, t),
                                       ClauseOp(<<Neg(r1, p1, t - 1), Neg(r2, p2, t - 1),
                                                  Neg(r1, p2, t), Neg(r2, p1, t)>>) >>])
                        ELSE <<>>])])])

\* (mutant of PositionSwitchingOps: only the moves (0,1) and (1,0), self.moves[1:3])
PositionSwitchingOps_TwoMoves(rs, w, h, T) ==
    LET cells == GridCells(w, h)
        pairs == Combinations2(rs)
    IN  Flatten([t \in 1..T |->
            Flatten([c \in 1..Len(cells) |->
                Flatten([m \in 1..2 |->
                    LET p1 == cells[c]
                        p2 == <<p1[1] + Moves[m + 1][1], p1[2] + Moves[m + 1][2]>>
                    IN  IF InBounds(p2, w, h)
                        THEN Flatten([q \in 1..Len(pairs) |->
                                LET r1 == pairs[q][1].id
                                    r2 == pairs[q][2].id
                                IN  << VarOp(r1, p1, t - 1), VarOp(r2, p2, t - 1),
                                       VarOp(r1, p2, t), VarOp(r2, p1, t),
                                       ClauseOp(<<Neg(r1, p1, t - 1), Neg(r2, p2, t - 1),
                                                  Neg(r1, p2, t), Neg(r2, p1, t)>>) >>])
                        ELSE <<>>])])])

\* add_position_switching_prohibition
PositionSwitchingOps(rs, w, h, T) ==
    LET cells == GridCells(w, h)
        pairs == Combinations2(rs)
    IN  Flatten([t \in 1..T |->
            Flatten([c \in 1..Len(cells) |->
                \* self.moves[1:]
                Flatten([m \in 1..(Len(Moves) - 1) |->
                    LET p1 == cells[c]
                        p2 == <<p1[1] + Moves[m + 1][1], p1[2] + Moves[m + 1][2]>>
                    IN  IF InBounds(p2, w, h)
                        THEN Flatten([q \in 1..Len(pairs) |->
                                LET r1 == pairs[q][1].id
                                    r2 == pairs[q][2].id
                                IN  << VarOp(r1, p1, t - 1), VarOp(r2, p2, t - 1),
                                       VarOp(r1, p2, t), VarOp(r2, p1, t),
                                       ClauseOp(<<Neg(r1, p1, t - 1), Neg(r2, p2, t - 1),
                                                  Neg(r1, p2, t), Neg(r2, p1, t)>>) >>])
                        ELSE <<>>])])])

----------------------------------------------------------------------------
(* The solver adapter.  Glucose3 is an external collaborator: solve() is   *)
(* TRUE iff the clauses are satisfiable and get_model() is then one        *)
(* satisfying assignment, as the list of the literals of the variables     *)
(* 1..n, n the largest variable of the clauses.  An assignment is a        *)
(* sequence of BOOLEANs indexed by variable number.                        *)

\* the largest element of a finite set of naturals (0 for the empty set)
SetMax(S) == IF S = {} THEN 0 ELSE CHOOSE m \in S : \A x \in S : x <= m

\* the largest variable of a clause (0 for the empty clause)
ClauseMax(c) == SetMax({ Abs(c[j]) : j \in 1..Len(c) })

\* the largest variable of the formula
NumVars(clauses) == SetMax({ ClauseMax(clauses[i]) : i \in 1..Len(clauses) })

\* assignment a (defined at least on the variables of c) satisfies clause c
SatClause(a, c) == \E j \in 1..Len(c) : IF c[j] > 0 THEN a[c[j]] ELSE ~a[-c[j]]

\* the satisfying assignments of clauses that extend a, which assigns 1..k-1, as a
\* sequence without repetition; byMax[k] are the indices of the clauses whose
\* largest variable is k
RECURSIVE ModelsFrom(_, _, _, _, _)
ModelsFrom(a, k, clauses, byMax, n) ==
    IF k > n THEN <<a>>
    ELSE LET Try(x) == IF \A i \in byMax[k] : SatClause(x, clauses[i])
                       THEN ModelsFrom(x, k + 1, clauses, byMax, n)
                       ELSE <<>>
         IN  Try(Append(a, TRUE)) \o Try(Append(a, FALSE))

\* all satisfying assignments of the formula over its variables 1..NumVars
Models(clauses) ==
    LET \* (<<>> \o f turns a function on 1..n into the explicit sequence)
        maxes == <<>> \o [i \in 1..Len(clauses) |-> ClauseMax(clauses[i])]
        n == SetMax({ maxes[i] : i \in 1..Len(clauses) })
        byMax == <<>> \o [k \in 1..n |-> { i \in 1..Len(clauses) : maxes[i] = k }]
        found == IF \E i \in 1..Len(clauses) : clauses[i] = <<>> THEN <<>>
                 ELSE ModelsFrom(<<>>, 1, clauses, byMax, n)
    IN  { found[i] : i \in 1..Len(found) }

\* solver.get_model() for the assignment a
ModelList(a) == [v \in 1..Len(a) |-> IF a[v] THEN v ELSE -v]

\* (mutant of SolutionOf: only the literal equal to var_num is looked for)
SolutionOf_PositiveOnly(vm, model) ==
    Flatten([i \in 1..Len(vm) |->
        LET hits == SelectSeq(model, LAMBDA lit : lit = vm[i][2])
        IN  IF hits = <<>> THEN <<>> ELSE << <<vm[i][1], hits[Len(hits)] > 0>> >>])

\* the dictionary comprehension of solve(): var_name -> lit > 0 for the literal of
\* the model whose variable is var_num, in var_map order
SolutionOf(vm, model) ==
    Flatten([i \in 1..Len(vm) |->
        LET hits == SelectSeq(model, LAMBDA lit : Abs(lit) = vm[i][2])
        IN  IF hits = <<>> THEN <<>> ELSE << <<vm[i][1], hits[Len(hits)] > 0>> >>])

----------------------------------------------------------------------------
(* The decoder *)

\* a path slot that holds None
NoPosition == <<>>

\* decode_solution, the loop over solution.items() from entry i on; ps is the
\* dictionary paths so far (robot id -> sequence of T+1 slots, slot t+1 for time t)
RECURSIVE DecodeFrom(_, _, _, _)
DecodeFrom(ps, sol, i, T) ==
    IF i > Len(sol) THEN ps
    ELSE IF sol[i][2]
         THEN LET numbers == ParseNumbers(sol[i][1])
                  robot_id == numbers[1]
                  x == numbers[2]
                  y == numbers[3]
                  t == numbers[4]
                  old == IF robot_id \in DOMAIN ps THEN ps[robot_id]
                         ELSE [s \in 1..(T + 1) |-> NoPosition]
                  new == [old EXCEPT ![t + 1] = <<x, y>>]
              IN  DecodeFrom([r \in (DOMAIN ps) \cup {robot_id} |->
                                  IF r = robot_id THEN new ELSE ps[r]],
                             sol, i + 1, T)
         ELSE DecodeFrom(ps, sol, i + 1, T)

\* the dictionary with no key
EmptyDict == [r \in {} |-> <<>>]

\* decode_solution up to the completeness check
DecodePaths(sol, T) == DecodeFrom(EmptyDict, sol, 1, T)

\* "if None in path" for some path of the dictionary
Incomplete(ps) == \E r \in DOMAIN ps : \E s \in 1..Len(ps[r]) : ps[r][s] = NoPosition

----------------------------------------------------------------------------
(* The explored inputs *)

\* every enumeration order of a finite set (the iteration order of a Python set)
Orders(S) ==
    { o \in [1..Cardinality(S) -> S] : \A i, j \in 1..Cardinality(S) : i # j => o[i] # o[j] }

\* candidate positions for a w x h grid: its cells and two cells outside it
Candidates(w, h) == { <<x, y>> : x \in 0..(w - 1), y \in 0..(h - 1) } \cup { <<w, 0>>, <<0, -1>> }

\* the robot lists over the ids of ids, starts and goals among the candidates
RobotLists(ids, w, h) ==
    { [i \in 1..Len(ids) |-> [id |-> ids[i], start |-> sg[i][1], goal |-> sg[i][2]]] :
      sg \in [1..Len(ids) -> Candidates(w, h) \X Candidates(w, h)] }

ObstacleSets(w, h) == { O \in SUBSET Candidates(w, h) : Cardinality(O) <= MaxObstacles }

----------------------------------------------------------------------------
(* solve_warehouse_problem as a state machine *)

Init ==
    /\ \E g \in GridSizes : width = g[1] /\ height = g[2]
    /\ time_horizon \in -1..MaxT
    /\ \E ids \in IdLists : robots \in RobotLists(ids, width, height)
    /\ obstacles \in ObstacleSets(width, height)
    /\ pc = "validate"
    /\ constructed = FALSE
    /\ var_map = <<>>
    /\ next_var = 1
    /\ cnf = <<>>
    /\ solution = <<>>
    /\ paths = EmptyDict
    /\ outcome = "running"
    /\ solver_calls = 0
    /\ NoFileCall

\* (mutant of ValidationRaises: the test of the goal against the obstacles is missing)
ValidationRaises_GoalUnchecked(w, h, rs, obs, T) ==
    \/ w <= 0 \/ h <= 0
    \/ T < 0
    \/ rs = <<>>
    \/ \E i \in 1..Len(rs) :
          \/ ~InBounds(rs[i].start, w, h)
          \/ ~InBounds(rs[i].goal, w, h)
          \/ rs[i].start \in obs

\* the input validation of solve_warehouse_problem raises ValueError
ValidationRaises(w, h, rs, obs, T) ==
    \/ w <= 0 \/ h <= 0
    \/ T < 0
    \/ rs = <<>>
    \/ \E i \in 1..Len(rs) :
          \/ ~InBounds(rs[i].start, w, h)
          \/ ~InBounds(rs[i].goal, w, h)
          \/ rs[i].start \in obs
          \/ rs[i].goal \in obs

\* the planner fields become those of the planner state st
SetPlanner(st) ==
    /\ var_map' = st.var_map
    /\ next_var' = st.next_var
    /\ cnf' = st.cnf

ThePlanner == [var_map |-> var_map, next_var |-> next_var, cnf |-> cnf]

Raise ==
    /\ pc' = "raised"
    /\ outcome' = "ValueError"

\* input validation, then planner = WarehousePathPlanner(width, height, time_horizon)
Validate ==
    /\ pc = "validate"
    /\ IF ValidationRaises(width, height, robots, obstacles, time_horizon)
       THEN /\ Raise
            /\ UNCHANGED planner
       ELSE /\ constructed' = TRUE
            /\ SetPlanner(NewPlanner)
            /\ pc' = "add_initial_positions"
            /\ UNCHANGED outcome
    /\ UNCHANGED <<calls, files, inputs, solution, paths, solver_calls>>

AddInitialPositions ==
    /\ pc = "add_initial_positions"
    /\ SetPlanner(RunOps(ThePlanner, InitialPositionsOps(robots, width, height)))
    /\ pc' = "add_goal_positions"
    /\ UNCHANGED <<calls, files, inputs, constructed, solution, paths, outcome, solver_calls>>

AddGoalPositions ==
    /\ pc = "add_goal_positions"
    /\ SetPlanner(RunOps(ThePlanner, GoalPositionsOps(robots, width, height, time_horizon)))
    /\ pc' = "add_obstacle_constraints"
    /\ UNCHANGED <<calls, files, inputs, constructed, solution, paths, outcome, solver_calls>>

AddObstacleConstraints ==
    /\ pc = "add_obstacle_constraints"
    /\ \E obs \in Orders(obstacles) :
          /\ SetPlanner(RunOps(ThePlanner, ObstacleConstraintsOps(obs, robots, width, height, time_horizon)))
          /\ IF ObstacleRaises(obs, width, height)
             THEN Raise
             ELSE pc' = "add_movement_constraints" /\ UNCHANGED outcome
    /\ UNCHANGED <<calls, files, inputs, constructed, solution, paths, solver_calls>>

AddMovementConstraints ==
    /\ pc = "add_movement_constraints"
    /\ SetPlanner(RunOps(ThePlanner, MovementConstraintsOps(robots, width, height, time_horizon)))
    /\ pc' = "add_collision_avoidance"
    /\ UNCHANGED <<calls, files, inputs, constructed, solution, paths, outcome, solver_calls>>

AddCollisionAvoidance ==
    /\ pc = "add_collision_avoidance"
    /\ SetPlanner(RunOps(ThePlanner, CollisionAvoidanceOps(robots, width, height, time_horizon)))
    /\ pc' = "add_position_switching_prohibition"
    /\ UNCHANGED <<calls, files, inputs, constructed, solution, paths, outcome, solver_calls>>

AddPositionSwitchingProhibition ==
    /\ pc = "add_position_switching_prohibition"
    /\ SetPlanner(RunOps(ThePlanner, PositionSwitchingOps(robots, width, height, time_horizon)))
    /\ pc' = "solve"
    /\ UNCHANGED <<calls, files, inputs, constructed, solution, paths, outcome, solver_calls>>

\* what solver.solve() and solver.get_model() can answer when the satisfying
\* assignments are ms: <<FALSE, <<>>>>, or <<TRUE, model>> for any one of them
SolverAnswers(ms) ==
    IF ms = {} THEN { <<FALSE, <<>> >> } ELSE { <<TRUE, ModelList(a)>> : a \in ms }

\* planner.solve(), and the return of None when it returned None
Solve ==
    /\ pc = "solve"
    /\ solver_calls' = solver_calls + 1
    /\ \E ans \in SolverAnswers(Models(cnf)) :
          IF ans[1]
          THEN /\ solution' = SolutionOf(var_map, ans[2])
               /\ pc' = "decode_solution"
               /\ UNCHANGED outcome
          ELSE /\ solution' = <<>>
               /\ outcome' = "None"
               /\ pc' = "done"
    /\ UNCHANGED <<calls, files, inputs, planner, paths>>

\* planner.decode_solution(solution) and the return of its result
DecodeSolution ==
    /\ pc = "decode_solution"
    /\ paths' = DecodePaths(solution, time_horizon)
    /\ IF Incomplete(paths')
       THEN Raise
       ELSE pc' = "done" /\ outcome' = "paths"
    /\ UNCHANGED <<calls, files, inputs, planner, solution, solver_calls>>

Next ==
    \/ Validate
    \/ AddInitialPositions
    \/ AddGoalPositions
    \/ AddObstacleConstraints
    \/ AddMovementConstraints
    \/ AddCollisionAvoidance
    \/ AddPositionSwitchingProhibition
    \/ Solve
    \/ DecodeSolution

Spec == Init /\ [][Next]_vars

----------------------------------------------------------------------------
(* Properties of the returned schedule *)

\* solve_warehouse_problem has returned a schedule
Returned == pc = "done" /\ outcome = "paths"

\* the ids of the input robots
InputIds == { robots[i].id : i \in 1..Len(robots) }

\* the returned schedule has an entry for each input robot and no other
KeysAreIds == DOMAIN paths = InputIds

\* the cell of robot i of the input list at time t in the returned schedule
At(i, t) == paths[robots[i].id][t + 1]

Manhattan(p, q) == Abs(p[1] - q[1]) + Abs(p[2] - q[2])

\* C1: whenever a schedule is returned, the path it holds for a robot begins at the
\* robot's start and ends, at time T, at its goal.
C1_StartGoal ==
    Returned =>
        \A i \in 1..Len(robots) :
            robots[i].id \in DOMAIN paths =>
                /\ At(i, 0) = robots[i].start
                /\ At(i, time_horizon) = robots[i].goal

\* C2: whenever a schedule is returned, consecutive cells of each of its paths are
\* equal or one cardinal unit move apart (Manhattan distance at most 1, so never a
\* diagonal).
C2_UnitSteps ==
    Returned =>
        \A a \in DOMAIN paths : \A t \in 1..(Len(paths[a]) - 1) :
            Manhattan(paths[a][t], paths[a][t + 1]) <= 1

C2_Witness ==
    /\ Returned /\ KeysAreIds
    /\ \E i \in 1..Len(robots) :
          /\ Abs(robots[i].start[1] - robots[i].goal[1]) = 1
          /\ Abs(robots[i].start[2] - robots[i].goal[2]) = 1
          /\ At(i, 1) # robots[i].start /\ At(i, 1) # robots[i].goal

\* C3: whenever a schedule is returned, two distinct robots of it are never in the
\* same cell at the same time.
C3_VertexDisjoint ==
    Returned =>
        \A a, b \in DOMAIN paths : \A t \in 1..(time_horizon + 1) :
            a # b => paths[a][t] # paths[b][t]

C3_Witness ==
    /\ Returned /\ KeysAreIds
    /\ Len(robots) = 2
    /\ robots[1].goal = robots[2].start
    /\ \E t \in 0..(time_horizon - 1) : At(1, t) # At(1, t + 1) /\ At(2, t) # At(2, t + 1)

\* C4: whenever a schedule is returned, no two distinct robots of it exchange their
\* cells in one step.
C4_NoSwap ==
    Returned =>
        \A a, b \in DOMAIN paths : \A t \in 1..time_horizon :
            a # b => ~(paths[a][t] = paths[b][t + 1] /\ paths[b][t] = paths[a][t + 1])

C4_Witness ==
    /\ Returned /\ KeysAreIds
    /\ Len(robots) = 2
    /\ \E t \in 0..(time_horizon - 1) :
          /\ Manhattan(At(1, t), At(2, t)) = 1
          /\ At(2, t + 1) = At(1, t)
          /\ At(1, t + 1) # At(1, t)

\* C5: whenever a schedule is returned, every cell of every path of it is inside the
\* grid and is no obstacle.
C5_Containment ==
    Returned =>
        \A a \in DOMAIN paths : \A t \in 1..Len(paths[a]) :
            InBounds(paths[a][t], width, height) /\ paths[a][t] \notin obstacles

C5_Witness ==
    /\ Returned /\ KeysAreIds
    /\ obstacles # {}
    /\ \E i \in 1..Len(robots) : Manhattan(robots[i].start, robots[i].goal) = 2

\* C8: a returned schedule has exactly one entry per input robot id, each entry a
\* sequence of T+1 defined cells.
C8_CompleteSchedule ==
    Returned =>
        /\ KeysAreIds
        /\ \A id \in DOMAIN paths :
              /\ Len(paths[id]) = time_horizon + 1
              /\ \A s \in 1..Len(paths[id]) : paths[id][s] # NoPosition

----------------------------------------------------------------------------
(* Reference: the valid schedules, by exhaustive enumeration *)

\* the input passes every check of the program, those of the obstacles included
ValidInput ==
    /\ ~ValidationRaises(width, height, robots, obstacles, time_horizon)
    /\ \A o \in obstacles : InBounds(o, width, height)

\* the free cells of the grid
FreeCells == { c \in (0..(width - 1)) \X (0..(height - 1)) : c \notin obstacles }

\* the paths (cell at time t in slot t+1) a robot can follow on its own: from its
\* start to its goal over free cells by steps of Manhattan length at most 1
RobotPaths(r) ==
    { p \in [1..(time_horizon + 1) -> FreeCells] :
        /\ p[1] = r.start
        /\ p[time_horizon + 1] = r.goal
        /\ \A t \in 1..time_horizon : Manhattan(p[t], p[t + 1]) <= 1 }

\* the valid schedules: one path per robot of the list, no two robots in one cell
\* at one time, no two robots exchanging their cells in one step
ValidSchedules ==
    { s \in [1..Len(robots) -> UNION { RobotPaths(robots[i]) : i \in 1..Len(robots) }] :
        /\ \A i \in 1..Len(robots) : s[i] \in RobotPaths(robots[i])
        /\ \A i, j \in 1..Len(robots) : i # j =>
              /\ \A t \in 1..(time_horizon + 1) : s[i][t] # s[j][t]
              /\ \A t \in 1..time_horizon :
                    ~(s[i][t] = s[j][t + 1] /\ s[j][t] = s[i][t + 1]) }

\* C6: when solve_warehouse_problem returns None on a valid input, no schedule
\* satisfies start/goal pinning, containment, the one-step move rule,
\* vertex-disjointness and the no-swap rule.
C6_NoneIsSound ==
    (pc = "done" /\ outcome = "None" /\ ValidInput) => ValidSchedules = {}

\* None is returned although the robots have different starts, different goals
\* and each a path of its own
C6_Witness ==
    /\ pc = "done" /\ outcome = "None" /\ ValidInput
    /\ Len(robots) = 2
    /\ time_horizon = MaxT
    /\ robots[1].start # robots[2].start
    /\ robots[1].goal # robots[2].goal
    /\ \A i \in 1..2 : RobotPaths(robots[i]) # {}

\* the variable names of the encoding: one per robot, cell of the grid and time step
CellVarNames ==
    { VarName(robots[i].id, c[1], c[2], t) :
        i \in 1..Len(robots), c \in (0..(width - 1)) \X (0..(height - 1)),
        t \in 0..time_horizon }

\* the assignment of the allocated variables that corresponds to schedule s:
\* v(a, c, t) is true iff a is at c at time t in s
EncodeSchedule(s) ==
    LET trues == { Lookup(var_map, VarName(robots[i].id, s[i][t + 1][1], s[i][t + 1][2], t)) :
                     i \in 1..Len(robots), t \in 0..time_horizon }
    IN  [k \in 1..(next_var - 1) |-> k \in trues]

\* the cells whose variable for robot i of the list at time t is true in assignment a
TrueCells(a, i, t) ==
    { c \in (0..(width - 1)) \X (0..(height - 1)) :
        a[Lookup(var_map, VarName(robots[i].id, c[1], c[2], t))] }

\* the schedule read off assignment a: robot i is at time t in the cell whose
\* variable is true (a has exactly one such cell for every robot and time)
ReadSchedule(a) ==
    [i \in 1..Len(robots) |->
        [s \in 1..(time_horizon + 1) |-> CHOOSE c \in TrueCells(a, i, s - 1) : TRUE]]

\* C7: when the formula is complete, its variables are the allocated ones, one per
\* robot, cell and time; every valid schedule corresponds to exactly one satisfying
\* assignment (v(a,c,t) true iff schedule[a][t] = c); and every satisfying assignment
\* has exactly one true cell per robot and time and reads as a valid schedule.
C7_Bijection ==
    pc = "solve" =>
        /\ NumVars(cnf) = next_var - 1
        /\ { var_map[k][1] : k \in 1..Len(var_map) } = CellVarNames
        /\ \A k \in 1..Len(var_map) : var_map[k][2] = k
        /\ Len(var_map) = next_var - 1
        /\ Len(var_map) = Cardinality(CellVarNames)
        /\ LET ms == Models(cnf)
               vs == ValidSchedules
           IN  /\ { EncodeSchedule(s) : s \in vs } = ms
               /\ Cardinality(ms) = Cardinality(vs)
               /\ \A a \in ms :
                     /\ \A i \in 1..Len(robots) : \A t \in 0..time_horizon :
                           Cardinality(TrueCells(a, i, t)) = 1
                     /\ ReadSchedule(a) \in vs
                     /\ EncodeSchedule(ReadSchedule(a)) = a

\* the formula of two robots is complete and several schedules are valid
C7_Witness ==
    /\ pc = "solve"
    /\ Len(robots) = 2
    /\ time_horizon = MaxT
    /\ obstacles # {}
    /\ Cardinality(ValidSchedules) >= 2

----------------------------------------------------------------------------
(* Invalid inputs *)

\* the positions of the robots: every start and every goal
Endpoints == { robots[i].start : i \in 1..Len(robots) } \cup { robots[i].goal : i \in 1..Len(robots) }

OutsideGrid(p) == p[1] < 0 \/ p[1] >= width \/ p[2] < 0 \/ p[2] >= height

\* the input is invalid in one of the listed ways
InvalidInput ==
    \/ width <= 0 \/ height <= 0
    \/ time_horizon < 0
    \/ Len(robots) = 0
    \/ \E p \in Endpoints : OutsideGrid(p)
    \/ Endpoints \cap obstacles # {}
    \/ \E o \in obstacles : OutsideGrid(o)

\* the steps of solve_warehouse_problem that precede planner.solve()
BeforeSolve ==
    { "validate", "add_initial_positions", "add_goal_positions", "add_obstacle_constraints" }

\* C9: on an input that is invalid in one of the listed ways the solver is never
\* invoked and no result is returned: the call is still in the steps that precede
\* planner.solve(), or it has ended, and then with ValueError.
C9_InvalidInputRaises ==
    InvalidInput =>
        /\ solver_calls = 0
        /\ pc \in BeforeSolve \cup { "raised" }
        /\ pc = "raised" <=> outcome = "ValueError"
        /\ pc \in BeforeSolve <=> outcome = "running"

\* ValueError for an obstacle outside the grid, robots and sizes being in order
C9_Witness ==
    /\ pc = "raised" /\ outcome = "ValueError" /\ solver_calls = 0
    /\ ~ValidationRaises(width, height, robots, obstacles, time_horizon)
    /\ \E o \in obstacles : OutsideGrid(o)

\* C10: when ValueError is raised for an invalid input, no variable has been
\* allocated and no clause has been appended to the formula.
C10_RaisedBeforeEncoding ==
    (InvalidInput /\ pc = "raised") =>
        /\ var_map = <<>>
        /\ next_var = 1
        /\ cnf = <<>>

----------------------------------------------------------------------------
(* The solver adapter *)

\* the keys of a dictionary kept as a sequence of <<key, value>>, in order
Keys(d) == [j \in 1..Len(d) |-> d[j][1]]

----------------------------------------------------------------------------
(* The order of the clauses in the formula *)

\* The clause families, numbered in the order F1, F2, F3, F4, F5, F6a, F6b.
\* one label f per clause that the statements ops append
Labels(ops, f) == [i \in 1..Cardinality({ j \in 1..Len(ops) : ops[j][1] = "clause" }) |-> f]

\* the family of each clause of the complete formula, by the statement that appends it
ClauseFamilies ==
    Labels(InitialPositionsOps(robots, width, height), 1)
    \o Labels(GoalPositionsOps(robots, width, height, time_horizon), 2)
    \o Labels(ObstacleConstraintsOps(CHOOSE o \in Orders(obstacles) : TRUE,
                                     robots, width, height, time_horizon), 3)
    \o Flatten([r \in 1..Len(robots) |->
          Flatten([s \in 1..(time_horizon + 1) |->
              Labels(AtLeastOneOps(robots[r].id, s - 1, width, height)
                     \o AtMostOneOps(robots[r].id, s - 1, width, height), 4)
              \o Labels(IF s - 1 < time_horizon
                        THEN KinematicOps(robots[r].id, s - 1, width, height)
                        ELSE <<>>, 5)])])
    \o Labels(CollisionAvoidanceOps(robots, width, height, time_horizon), 6)
    \o Labels(PositionSwitchingOps(robots, width, height, time_horizon), 7)

AllPositive(c) == \A j \in 1..Len(c) : c[j] > 0
AllNegative(c) == \A j \in 1..Len(c) : c[j] < 0

\* clause c has the form of the clauses of family f
HasShape(c, f) ==
    CASE f \in {1, 2} -> Len(c) = 1
      [] f = 3 -> Len(c) = 1 /\ AllNegative(c)
      [] f = 4 -> (AllPositive(c) /\ Len(c) = width * height) \/ (AllNegative(c) /\ Len(c) = 2)
      [] f = 5 -> Len(c) >= 2 /\ c[1] < 0 /\ AllPositive(Tail(c))
      [] f = 6 -> AllNegative(c) /\ Len(c) = 2
      [] f = 7 -> AllNegative(c) /\ Len(c) = 4

\* C20 as stated: in the complete formula the families of the clauses never
\* decrease, so that no clause of an earlier family follows one of a later family.
C20_FamilyOrder ==
    pc = "solve" =>
        LET fam == <<>> \o ClauseFamilies
        IN  \A i \in 1..(Len(fam) - 1) : fam[i] <= fam[i + 1]

\* F4 and F5 taken as one group
Group(f) == IF f = 5 THEN 4 ELSE f

\* C20 as amended: the groups F1, F2, F3, F4 with F5, F6a, F6b never decrease, and
\* the at-least-one clause of a robot and time step precedes the movement clauses
\* that leave the cells of that step.
C20_BuilderOrder ==
    pc = "solve" =>
        LET fam == <<>> \o ClauseFamilies
        IN  /\ Len(fam) = Len(cnf)
            /\ \A i \in 1..Len(cnf) : HasShape(cnf[i], fam[i])
            /\ \A i \in 1..(Len(fam) - 1) : Group(fam[i]) <= Group(fam[i + 1])
            /\ \A i \in 1..Len(cnf) :
                  fam[i] = 5 =>
                      \E j \in 1..(i - 1) :
                          /\ fam[j] = 4 /\ AllPositive(cnf[j])
                          /\ \E k \in 1..Len(cnf[j]) : cnf[j][k] = -cnf[i][1]

\* a complete formula with clauses of all seven families
C20_Witness ==
    /\ pc = "solve"
    /\ time_horizon = MaxT
    /\ \A f \in 1..7 : \E i \in 1..Len(ClauseFamilies) : ClauseFamilies[i] = f

----------------------------------------------------------------------------
(* Scenarios: solve_warehouse_problem called on chosen families of inputs *)

\* the state at the entry of solve_warehouse_problem, whatever the arguments
AtEntry ==
    /\ pc = "validate"
    /\ constructed = FALSE
    /\ var_map = <<>>
    /\ next_var = 1
    /\ cnf = <<>>
    /\ solution = <<>>
    /\ paths = EmptyDict
    /\ outcome = "running"
    /\ solver_calls = 0
    /\ NoFileCall

\* the grids of the single-robot scenarios
SingleGridSizes == { <<1, 2>>, <<3, 1>>, <<2, 2>>, <<3, 2>> }

\* one robot on a grid with a few obstacles, start and goal on free cells
SingleInit ==
    /\ \E g \in SingleGridSizes : width = g[1] /\ height = g[2]
    /\ time_horizon \in 0..(MaxT + 2)
    /\ obstacles \in { O \in SUBSET ((0..(width - 1)) \X (0..(height - 1))) :
                         Cardinality(O) <= MaxObstacles }
    /\ \E s, g \in ((0..(width - 1)) \X (0..(height - 1))) \ obstacles :
          robots = <<[id |-> 1, start |-> s, goal |-> g]>>
    /\ AtEntry

SingleSpec == SingleInit /\ [][Next]_vars

\* the free cells within one unit move (or none) of a cell of S
StepFrom(S) ==
    { c \in FreeCells : \E p \in S : Manhattan(p, c) <= 1 }

\* the cells reachable from S through free cells in at most k moves
RECURSIVE Within(_, _)
Within(S, k) == IF k = 0 THEN S ELSE Within(StepFrom(S), k - 1)

\* the solver has answered or the call is over
Answered == pc \in { "decode_solution", "done", "raised" }

\* C11: for one robot on a valid grid a schedule is returned iff the goal is
\* reachable from the start in at most T moves through free cells; None otherwise.
\* Without obstacles None is returned exactly when T is below the Manhattan
\* distance; when the obstacles cut the goal off, None is returned whatever T is.
C11_SingleAgentReachability ==
    LET r == robots[1]
        reachable == r.goal \in Within({r.start}, time_horizon)
        cut_off == r.goal \notin Within({r.start}, width * height)
    IN  /\ Answered =>
              /\ outcome # "ValueError"
              /\ (pc = "done" /\ outcome = "None") <=> ~reachable
              /\ obstacles = {} =>
                    ((outcome = "None") <=> (time_horizon < Manhattan(r.start, r.goal)))
              /\ cut_off => outcome = "None"
        /\ pc = "done" => outcome \in { "None", "paths" }
        /\ Returned => DOMAIN paths = { r.id } /\ Len(paths[r.id]) = time_horizon + 1

\* None for a goal that the obstacles cut off, with a horizon longer than any path
C11_Witness ==
    /\ pc = "done" /\ outcome = "None"
    /\ robots[1].goal \notin Within({robots[1].start}, width * height)
    /\ time_horizon > MaxT

\* the widths of the one-row corridors
CorridorWidths == 2..4

\* two robots in a one-row corridor without obstacles, any starts and goals
CorridorInit ==
    /\ width \in CorridorWidths
    /\ height = 1
    /\ obstacles = {}
    /\ time_horizon \in 0..(MaxT + 1)
    /\ \E s1, g1, s2, g2 \in 0..(width - 1) :
          robots = << [id |-> 1, start |-> <<s1, 0>>, goal |-> <<g1, 0>>],
                      [id |-> 2, start |-> <<s2, 0>>, goal |-> <<g2, 0>>] >>
    /\ AtEntry

CorridorSpec == CorridorInit /\ [][Next]_vars

\* C12: in a one-row corridor without obstacles, if robot 1 starts left of robot 2
\* and its goal is right of robot 2's goal, None is returned; and in any returned
\* schedule the left-to-right order of the two robots is the same at every time.
C12_NoPassingInCorridor ==
    /\ (robots[1].start[1] < robots[2].start[1] /\ robots[1].goal[1] > robots[2].goal[1]) =>
          /\ pc \notin { "decode_solution", "raised" }
          /\ pc = "done" => outcome = "None"
    /\ Returned =>
          /\ KeysAreIds
          /\ \A t, u \in 0..time_horizon :
                (At(1, t)[1] < At(2, t)[1]) <=> (At(1, u)[1] < At(2, u)[1])

\* None in the corridor of the widest kind with the longest horizon, the robots
\* having to pass each other with room on both sides
C12_Witness ==
    /\ pc = "done" /\ outcome = "None"
    /\ width = 4
    /\ time_horizon = MaxT + 1
    /\ robots[1].start = <<1, 0>> /\ robots[2].start = <<2, 0>>
    /\ robots[1].goal = <<3, 0>> /\ robots[2].goal = <<0, 0>>

\* the horizon of test_passing_possible
PassingHorizon == 4

\* the two ends of an edge of the 2x2 grid
Edges2x2 == { e \in ((0..1) \X (0..1)) \X ((0..1) \X (0..1)) : Manhattan(e[1], e[2]) = 1 }

\* two robots on the 2x2 grid without obstacles that have to exchange the two ends
\* of an edge; test_passing_possible has the edge from (0,0) to (1,0)
PassingInit ==
    /\ width = 2 /\ height = 2
    /\ obstacles = {}
    /\ time_horizon = PassingHorizon
    /\ \E e \in Edges2x2 :
          robots = << [id |-> 1, start |-> e[1], goal |-> e[2]],
                      [id |-> 2, start |-> e[2], goal |-> e[1]] >>
    /\ AtEntry

PassingSpec == PassingInit /\ [][Next]_vars

\* C13: on the 2x2 grid without obstacles, robot 1 going from (0,0) to (1,0) and
\* robot 2 from (1,0) to (0,0) with T = 4, the formula is satisfiable and the call
\* returns a schedule in which both robots are at their goals at time T.
C13_PassingPossible ==
    (robots[1].start = <<0, 0>> /\ robots[1].goal = <<1, 0>>) =>
        /\ outcome \notin { "None", "ValueError" }
        /\ pc = "solve" => Models(cnf) # {}
        /\ pc = "done" =>
              /\ Returned
              /\ KeysAreIds
              /\ At(1, time_horizon) = <<1, 0>>
              /\ At(2, time_horizon) = <<0, 0>>

\* the schedule of the test has been returned, robot 2 following robot 1 around
C13_Witness ==
    /\ Returned
    /\ robots[1].start = <<0, 0>> /\ robots[1].goal = <<1, 0>>
    /\ paths[1][2] = <<0, 1>>
    /\ paths[2][2] = <<0, 0>>

\* the cells of the 2x2 grid around its cycle
Cycle2x2 == << <<0, 0>>, <<0, 1>>, <<1, 1>>, <<1, 0>> >>

\* the cell d places further around the cycle than its k-th cell
Around(k, d) == Cycle2x2[((k - 1 + d) % 4) + 1]

\* four robots filling the 2x2 grid, in any arrangement, each with the goal next to
\* its start around the cycle, all in the same direction (d = 1 or d = 3); one step
RotationInit ==
    /\ width = 2 /\ height = 2
    /\ obstacles = {}
    /\ time_horizon = 1
    /\ \E d \in {1, 3} : \E place \in Orders(1..4) :
          robots = [i \in 1..4 |->
                      [id |-> i, start |-> Around(place[i], 0), goal |-> Around(place[i], d)]]
    /\ AtEntry

RotationSpec == RotationInit /\ [][Next]_vars

\* C19: four robots that fill the 2x2 grid and each have to move, in the one step
\* of T = 1, into the cell the next robot around the cycle leaves: the formula is
\* satisfiable and the call returns that rotation.
C19_RotationAllowed ==
    /\ outcome \notin { "None", "ValueError" }
    /\ pc = "solve" => Models(cnf) # {}
    /\ pc = "done" =>
          /\ Returned
          /\ KeysAreIds
          /\ \A i \in 1..4 : At(i, 0) = robots[i].start /\ At(i, 1) = robots[i].goal
          /\ \A i \in 1..4 : \E j \in 1..4 : j # i /\ At(i, 1) = At(j, 0)

\* a rotation has been returned
C19_Witness ==
    /\ Returned
    /\ Len(robots) = 4
    /\ \A i \in 1..4 : paths[i][1] # paths[i][2]
    /\ { paths[i][2] : i \in 1..4 } = { paths[i][1] : i \in 1..4 }

----------------------------------------------------------------------------
(* decode_solution on its own: called with any dictionary over the variable *)
(* names of the robots                                                      *)

\* the variable names of robots rs on a w x h grid up to time T, robot by robot
NamesOf(rs, w, h, T) ==
    Flatten([r \in 1..Len(rs) |->
        Flatten([s \in 1..(T + 1) |->
            [c \in 1..(w * h) |->
                VarName(rs[r].id, GridCells(w, h)[c][1], GridCells(w, h)[c][2], s - 1)]])])

\* a planner for two robots on the 1x2 grid has been constructed and
\* decode_solution is called with some dictionary var_name -> bool
DecodeInit ==
    /\ width = 1 /\ height = 2
    /\ obstacles = {}
    /\ time_horizon \in 0..1
    /\ robots = << [id |-> 1, start |-> <<0, 0>>, goal |-> <<0, 0>>],
                   [id |-> 2, start |-> <<0, 1>>, goal |-> <<0, 1>>] >>
    /\ LET names == NamesOf(robots, width, height, time_horizon)
       IN  \E b \in [1..Len(names) -> BOOLEAN] :
              solution = [j \in 1..Len(names) |-> <<names[j], b[j]>>]
    /\ pc = "decode_solution"
    /\ constructed = TRUE
    /\ var_map = <<>>
    /\ next_var = 1
    /\ cnf = <<>>
    /\ paths = EmptyDict
    /\ outcome = "running"
    /\ solver_calls = 0
    /\ NoFileCall

DecodeSpec == DecodeInit /\ [][DecodeSolution]_vars

\* robot i of the list has no true variable at time t in the dictionary
NoTrueVariable(i, t) ==
    ~\E j \in 1..Len(solution) : \E c \in (0..(width - 1)) \X (0..(height - 1)) :
        solution[j] = <<VarName(robots[i].id, c[1], c[2], t), TRUE>>

\* C15: decode_solution raises whenever some input robot has no true variable at
\* some time, also when the robot has no true variable at all; what it returns
\* has every input robot and no undefined slot.
C15_DecodeRejectsIncomplete ==
    pc \in { "done", "raised" } =>
        /\ (\E i \in 1..Len(robots) : \E t \in 0..time_horizon : NoTrueVariable(i, t))
              => pc = "raised"
        /\ pc = "done" =>
              /\ InputIds \subseteq DOMAIN paths
              /\ \A a \in DOMAIN paths : \A s \in 1..Len(paths[a]) : paths[a][s] # NoPosition

----------------------------------------------------------------------------
(* DIMACS text: CNFFormula.to_dimacs, write_cnf and SATFileUtils.read_cnf. *)
(* A text is a sequence of characters.                                     *)

\* sep.join(parts)
RECURSIVE Join(_, _)
Join(parts, sep) ==
    IF parts = <<>> THEN <<>>
    ELSE IF Len(parts) = 1 THEN parts[1]
    ELSE parts[1] \o sep \o Join(Tail(parts), sep)

\* f"p cnf {n} {m}"
HeaderLine(n, m) == <<"p", " ", "c", "n", "f", " ">> \o IntStr(n) \o <<" ">> \o IntStr(m)

\* the literals of a clause as strings: str(var) and -var of a SATVariable,
\* map(str, clause) of integers
LiteralStrs(clause) == [j \in 1..Len(clause) |-> IntStr(clause[j])]

\* ' '.join(clause) + ' 0'
ClauseLine(clause) == Join(LiteralStrs(clause), <<" ">>) \o <<" ", "0">>

\* CNFFormula.to_dimacs: the lines joined by '\n'
ToDimacsText(f) ==
    Join(<<HeaderLine(f.var_map_len, Len(f.clauses))>>
            \o [k \in 1..Len(f.clauses) |-> ClauseLine(f.clauses[k])],
         <<"\n">>)

\* max(map(abs, lits)) of a non-empty list
MaxAbs(lits) ==
    LET abs == { Abs(lits[j]) : j \in 1..Len(lits) }
    IN  CHOOSE m \in abs : \A x \in abs : x <= m

\* write_cnf(clauses, file_path): the exception and the text of the file afterwards.
\* open(file_path, 'w') has emptied the file when max() raises on no literal.
WriteCnfResult(cls) ==
    LET lits == Flatten(cls)
    IN  IF lits = <<>>
        THEN [error |-> "ValueError", text |-> <<>>]
        ELSE [error |-> "none",
              text  |-> HeaderLine(MaxAbs(lits), Len(cls)) \o <<"\n">>
                           \o Flatten([k \in 1..Len(cls) |-> ClauseLine(cls[k]) \o <<"\n">>])]

\* file.readlines(): the lines with their '\n', the last one maybe without
RECURSIVE ReadLinesFrom(_, _, _)
ReadLinesFrom(text, i, cur) ==
    IF i > Len(text) THEN (IF cur = <<>> THEN <<>> ELSE <<cur>>)
    ELSE IF text[i] = "\n" THEN <<Append(cur, "\n")>> \o ReadLinesFrom(text, i + 1, <<>>)
    ELSE ReadLinesFrom(text, i + 1, Append(cur, text[i]))

ReadLines(text) == ReadLinesFrom(text, 1, <<>>)

\* line.split(): the maximal runs of non-whitespace characters
RECURSIVE SplitFrom(_, _, _)
SplitFrom(line, i, cur) ==
    IF i > Len(line) THEN (IF cur = <<>> THEN <<>> ELSE <<cur>>)
    ELSE IF line[i] \in { " ", "\n" }
         THEN (IF cur = <<>> THEN <<>> ELSE <<cur>>) \o SplitFrom(line, i + 1, <<>>)
         ELSE SplitFrom(line, i + 1, Append(cur, line[i]))

Split(line) == SplitFrom(line, 1, <<>>)

\* the digits of a token after its sign
Unsigned(tok) == IF tok # <<>> /\ tok[1] \in { "-", "+" } THEN Tail(tok) ELSE tok

\* int(tok) does not raise ValueError: an optional sign and decimal digits
IsIntToken(tok) ==
    /\ Unsigned(tok) # <<>>
    /\ \A j \in 1..Len(Unsigned(tok)) : IsDigit(Unsigned(tok)[j])

RECURSIVE NatOf(_)
NatOf(d) == IF d = <<>> THEN 0
            ELSE NatOf(SubSeq(d, 1, Len(d) - 1)) * 10 + DigitValue(d[Len(d)])

\* int(tok)
IntOf(tok) == IF tok[1] = "-" THEN -NatOf(Tail(tok)) ELSE NatOf(Unsigned(tok))

\* the loop of read_cnf from line k on, acc = self.clauses so far: the exception
\* that ends it, if any, and self.clauses at that point
RECURSIVE ReadCnfFrom(_, _, _)
ReadCnfFrom(lines, k, acc) ==
    IF k > Len(lines) THEN [error |-> "none", clauses |-> acc]
    ELSE IF lines[k][1] \in { "p", "c" } THEN ReadCnfFrom(lines, k + 1, acc)
    ELSE LET toks == Split(lines[k])
         IN  IF \E j \in 1..Len(toks) : ~IsIntToken(toks[j])
             THEN [error |-> "ValueError", clauses |-> acc]
             ELSE IF toks = <<>>
             THEN [error |-> "IndexError", clauses |-> acc]
             ELSE LET clause == [j \in 1..Len(toks) |-> IntOf(toks[j])]
                  IN  ReadCnfFrom(lines, k + 1,
                          Append(acc, IF clause[Len(clause)] = 0
                                      THEN SubSeq(clause, 1, Len(clause) - 1)
                                      ELSE clause))

\* SATFileUtils.read_cnf on a file with this text
ReadCnfResult(text) == ReadCnfFrom(ReadLines(text), 1, <<>>)

----------------------------------------------------------------------------
(* The file utilities as a state machine: one call of to_dimacs, write_cnf *)
(* or read_cnf                                                             *)

\* solve_warehouse_problem is not running
NoSolveCall ==
    /\ width = 1 /\ height = 1
    /\ robots = <<>>
    /\ obstacles = {}
    /\ time_horizon = 0
    /\ pc = "idle"
    /\ constructed = FALSE
    /\ var_map = <<>>
    /\ next_var = 1
    /\ cnf = <<>>
    /\ solution = <<>>
    /\ paths = EmptyDict
    /\ outcome = "running"
    /\ solver_calls = 0
    /\ requested = <<>>
    /\ solver_held = FALSE

\* the sequences over S with a length in lens
SeqsOver(S, lens) == UNION { [1..n -> S] : n \in lens }

\* len(var_map) of the formulas serialized, the clause counts and clause lengths
FormulaSizes == { 0, 1, 2, 10 }
ClauseCounts == 0..2
ClauseLengths == 0..2

\* literals over the variables 1..n: the lowest and the highest variable
LiteralsUpTo(n) == { l \in { -n, -1, 1, n } : l # 0 /\ Abs(l) <= n }

\* the clause lists over the variables 1..n
ClauseLists(n) == SeqsOver(SeqsOver(LiteralsUpTo(n), ClauseLengths), ClauseCounts)

\* a CNF file to read: an optional header "p cnf n m", then clause lines (a clause
\* with no literal is the line "0") and comment lines, the clause lines indented
\* or not, then maybe a last line of spaces without a newline
FileIndent == [j \in 1..12 |-> " "]
FileBodyItems ==
    { [kind |-> "clause", lits |-> c] : c \in { <<1, -2, 3>>, <<-1, 2, 3>>, <<1, 2, -3>>, <<>> } }
       \cup { [kind |-> "comment", lits |-> <<>>] }
FileShapes ==
    [ header : { <<>>, <<3, 3>>, <<3, 1>> },
      indent : BOOLEAN,
      body   : SeqsOver(FileBodyItems, 0..3),
      tail   : BOOLEAN ]

\* the text of one body line of a file
BodyLine(item, indent) ==
    IF item.kind = "comment" THEN <<"c", " ", "x", "\n">>
    ELSE (IF indent THEN FileIndent ELSE <<>>)
            \o Join(LiteralStrs(item.lits) \o << <<"0">> >>, <<" ">>) \o <<"\n">>

\* the text of a file of this shape
FileText(sh) ==
    (IF sh.header = <<>> THEN <<>> ELSE HeaderLine(sh.header[1], sh.header[2]) \o <<"\n">>)
       \o Flatten([k \in 1..Len(sh.body) |-> BodyLine(sh.body[k], sh.indent)])
       \o (IF sh.tail THEN FileIndent ELSE <<>>)

\* the clauses written in a file of this shape, in file order
FileClauses(sh) ==
    LET cl == SelectSeq(sh.body, LAMBDA item : item.kind = "clause")
    IN  [k \in 1..Len(cl) |-> cl[k].lits]

FileInit ==
    /\ NoSolveCall
    /\ io_pc = "call"
    /\ io_error = "none"
    /\ file_clauses = <<>>
    /\ \/ /\ io_call = "to_dimacs"
          /\ \E n \in FormulaSizes : \E cls \in ClauseLists(n) :
                formula = [var_map_len |-> n, clauses |-> cls]
          /\ file = <<>>
       \/ /\ io_call = "write_cnf"
          /\ \E n \in FormulaSizes : \E cls \in ClauseLists(n) :
                formula = [var_map_len |-> IF Flatten(cls) = <<>> THEN 0
                                           ELSE MaxAbs(Flatten(cls)),
                           clauses |-> cls]
          /\ file = <<>>
       \/ /\ io_call = "read_cnf"
          /\ formula = [var_map_len |-> 0, clauses |-> <<>>]
          /\ \E sh \in FileShapes : file = FileText(sh)

\* formula.to_dimacs()
ToDimacs ==
    /\ io_call = "to_dimacs" /\ io_pc = "call"
    /\ file' = ToDimacsText(formula)
    /\ io_pc' = "returned"
    /\ UNCHANGED <<formula, file_clauses, io_call, io_error>>
    /\ UNCHANGED <<calls, inputs, planner, pc, solution, paths, outcome, solver_calls>>

\* write_cnf(clauses, file_path)
WriteCnf ==
    /\ io_call = "write_cnf" /\ io_pc = "call"
    /\ LET r == WriteCnfResult(formula.clauses)
       IN  /\ file' = r.text
           /\ io_error' = r.error
           /\ io_pc' = IF r.error = "none" THEN "returned" ELSE "raised"
    /\ UNCHANGED <<formula, file_clauses, io_call>>
    /\ UNCHANGED <<calls, inputs, planner, pc, solution, paths, outcome, solver_calls>>

\* SATFileUtils(file_path).read_cnf()
ReadCnf ==
    /\ io_call = "read_cnf" /\ io_pc = "call"
    /\ LET r == ReadCnfResult(file)
       IN  /\ file_clauses' = r.clauses
           /\ io_error' = r.error
           /\ io_pc' = IF r.error = "none" THEN "returned" ELSE "raised"
    /\ UNCHANGED <<formula, file, io_call>>
    /\ UNCHANGED <<calls, inputs, planner, pc, solution, paths, outcome, solver_calls>>

FileNext ==
    \/ ToDimacs
    \/ WriteCnf
    \/ ReadCnf

FileSpec == FileInit /\ [][FileNext]_vars

\* C16: the text a serialization leaves is the header line "p cnf N M", N the
\* highest variable of the formula and M its number of clauses, then exactly M
\* lines, line k the literals of clause k separated by spaces and then 0, every
\* line ended by a newline; no serialization fails.
C16_DimacsFormat ==
    (io_call \in { "to_dimacs", "write_cnf" } /\ io_pc # "call") =>
        /\ io_pc = "returned"
        /\ LET lines == ReadLines(file)
               M == Len(formula.clauses)
           IN  /\ Len(lines) = M + 1
               /\ \A k \in 1..Len(lines) : lines[k][Len(lines[k])] = "\n"
               /\ Split(lines[1]) = << <<"p">>, <<"c", "n", "f">>,
                                       IntStr(formula.var_map_len), IntStr(M) >>
               /\ \A k \in 1..M :
                     Split(lines[k + 1]) = LiteralStrs(formula.clauses[k]) \o << <<"0">> >>

\* the files of C17: every clause line has a literal
ClauseFileShapes ==
    { sh \in FileShapes : \A k \in 1..Len(sh.body) :
                            sh.body[k].kind = "clause" => sh.body[k].lits # <<>> }

\* C17: read_cnf on a file of a header, comment lines and clause lines, indented
\* or not, with or without a last line of spaces, returns and has stored the
\* clauses of the file in file order without their 0; on the empty file it has
\* stored the empty list.
C17_ReadCnf ==
    (io_call = "read_cnf" /\ io_pc # "call") =>
        \A sh \in ClauseFileShapes :
            file = FileText(sh) =>
                /\ io_pc = "returned"
                /\ file_clauses = FileClauses(sh)

\* C18: after read_cnf on the file "p cnf 3 1" / "0" the stored list of clauses
\* is empty: the line of the lone terminator adds no clause.
C18_EmptyClauseLine ==
    (/\ io_call = "read_cnf" /\ io_pc # "call"
     /\ file = FileText([header |-> <<3, 1>>, indent |-> FALSE,
                         body |-> << [kind |-> "clause", lits |-> <<>>] >>,
                         tail |-> FALSE]))
        => /\ io_pc = "returned"
           /\ file_clauses = <<>>

----------------------------------------------------------------------------
(* The decoder against the allocator *)

\* C21: in a returned schedule, every variable that is true in the assignment
\* and was allocated for robot id a, cell (x, y) and time t has set
\* schedule[a][t] = (x, y): key, cell and time are those of the allocation,
\* whatever integer the id is.
C21_DecoderRoundTrip ==
    Returned =>
        \A j \in 1..Len(solution) : solution[j][2] =>
            \A i \in 1..Len(robots) :
               \A c \in (0..(width - 1)) \X (0..(height - 1)) : \A t \in 0..time_horizon :
                  solution[j][1] = VarName(robots[i].id, c[1], c[2], t)
                     => /\ robots[i].id \in DOMAIN paths
                        /\ paths[robots[i].id][t + 1] = c

----------------------------------------------------------------------------
(* The allocator on its own: any sequence of create_variable calls on a    *)
(* fresh planner                                                           *)

MaxCalls == 3

\* the tuples create_variable is called with: ids of either sign and of two
\* digits, coordinates and times whose digits could be confused with the id's
AllocTuples ==
    { <<1, 0, 0, 0>>, <<1, 0, 0, 1>>, <<1, 1, 0, 0>>, <<-1, 0, 0, 0>>,
      <<11, 0, 0, 0>>, <<1, 10, 0, 0>>, <<1, 1, 0, 10>>, <<11, 0, 1, 0>> }

\* planner = WarehousePathPlanner(1, 1, 0), nothing called on it yet
AllocInit ==
    /\ width = 1 /\ height = 1
    /\ time_horizon = 0
    /\ robots = <<>>
    /\ obstacles = {}
    /\ pc = "idle"
    /\ constructed = TRUE
    /\ var_map = <<>>
    /\ next_var = 1
    /\ cnf = <<>>
    /\ solution = <<>>
    /\ paths = EmptyDict
    /\ outcome = "running"
    /\ solver_calls = 0
    /\ NoFileCall

\* planner.create_variable(k[1], k[2], k[3], k[4]) and the id it returns
CreateVariableCall ==
    /\ constructed /\ pc = "idle"
    /\ Len(requested) < MaxCalls
    /\ \E k \in AllocTuples :
          LET st == CreateVariable(ThePlanner, k)
          IN  /\ SetPlanner(st)
              /\ requested' = Append(requested, <<k, VarOf(st, k)>>)
    /\ UNCHANGED <<inputs, pc, constructed, solution, paths, outcome, solver_calls>>
    /\ UNCHANGED <<files, solver_held>>

AllocSpec == AllocInit /\ [][CreateVariableCall]_vars

\* the distinct tuples among the first n calls
RequestedBefore(n) == { requested[j][1] : j \in 1..n }

\* C22: after any sequence of create_variable calls var_map has one entry per
\* distinct requested tuple and its ids are exactly 1..next_var-1, each once; a
\* call with a new tuple returned the next free id (one more than the number of
\* distinct tuples before it), a call with a tuple seen before returned the id of
\* the earlier call, and next_var has grown by one per new tuple only.
C22_AllocatorInvariant ==
    LET tuples == RequestedBefore(Len(requested))
    IN  /\ Len(var_map) = Cardinality(tuples)
        /\ next_var = Cardinality(tuples) + 1
        /\ { var_map[i][2] : i \in 1..Len(var_map) } = 1..(next_var - 1)
        /\ \A i, j \in 1..Len(var_map) : var_map[i][1] = var_map[j][1] => i = j
        /\ \A k \in tuples :
              \E i \in 1..Len(var_map) : var_map[i][1] = VarName(k[1], k[2], k[3], k[4])
        /\ \A n \in 1..Len(requested) :
              IF requested[n][1] \in RequestedBefore(n - 1)
              THEN \E m \in 1..(n - 1) : requested[m] = requested[n]
              ELSE requested[n][2] = Cardinality(RequestedBefore(n - 1)) + 1
        /\ \A n \in 1..Len(requested) :
              \E i \in 1..Len(var_map) :
                 var_map[i] = << VarName(requested[n][1][1], requested[n][1][2],
                                         requested[n][1][3], requested[n][1][4]),
                                 requested[n][2] >>

\* a tuple was requested, then another, then the first again
C22_Witness ==
    /\ Len(requested) = 3
    /\ requested[1][1] # requested[2][1]
    /\ requested[3] = requested[1]
    /\ next_var = 3

----------------------------------------------------------------------------
(* planner.solve step by step: the solver instance of "with Glucose3() as  *)
(* solver" from its creation to each way out of the with block             *)

\* (mutant of HeldAfterExit: the instance is deleted on the returns only)
HeldAfterExit_LeakOnRaise(exit) == exit = "raise"

\* whether the instance is still alive once the with block is left by a return
\* of the dictionary, a return of None or a raise: __exit__ deletes it every time
HeldAfterExit(exit) == FALSE

\* with Glucose3() as solver: solver.append_formula(self.cnf.clauses)
EnterSolve ==
    /\ pc = "solve"
    /\ pc' = "in_solve"
    /\ solver_held' = TRUE
    /\ solver_calls' = solver_calls + 1
    /\ UNCHANGED <<files, inputs, planner, solution, paths, outcome, requested>>

\* solver.solve() is true, get_model() is a list: return the dictionary
SolveReturnsModel ==
    /\ pc = "in_solve"
    /\ \E ans \in SolverAnswers(Models(cnf)) :
          /\ ans[1]
          /\ solution' = SolutionOf(var_map, ans[2])
    /\ pc' = "decode_solution"
    /\ solver_held' = HeldAfterExit("return model")
    /\ UNCHANGED <<files, inputs, planner, paths, outcome, solver_calls, requested>>

\* solver.solve() is false: return None, and solve_warehouse_problem returns None
SolveReturnsNone ==
    /\ pc = "in_solve"
    /\ Models(cnf) = {}
    /\ solution' = <<>>
    /\ outcome' = "None"
    /\ pc' = "done"
    /\ solver_held' = HeldAfterExit("return None")
    /\ UNCHANGED <<files, inputs, planner, paths, solver_calls, requested>>

\* solver.solve() is true and get_model() is no list: raise ValueError("No model
\* found"); what get_model() gives is left open here
SolveRaises ==
    /\ pc = "in_solve"
    /\ Models(cnf) # {}
    /\ Raise
    /\ solver_held' = HeldAfterExit("raise")
    /\ UNCHANGED <<files, inputs, planner, solution, paths, solver_calls, requested>>

StepwiseNext ==
    \/ Validate
    \/ AddInitialPositions
    \/ AddGoalPositions
    \/ AddObstacleConstraints
    \/ AddMovementConstraints
    \/ AddCollisionAvoidance
    \/ AddPositionSwitchingProhibition
    \/ EnterSolve
    \/ SolveReturnsModel
    \/ SolveReturnsNone
    \/ SolveRaises
    \/ DecodeSolution

\* two robots in a corridor, solve taken step by step
StepwiseSpec == CorridorInit /\ [][StepwiseNext]_vars

\* C23: a solver instance is alive only inside planner.solve; after the return of
\* the dictionary, after the return of None and after the raise it has been
\* released, and decode_solution starts with the solver released.
C23_SolverReleased ==
    /\ solver_held => pc = "in_solve"
    /\ pc \in { "decode_solution", "done", "raised" } => ~solver_held
    /\ pc = "in_solve" => solver_held

\* solve was left by the raise
C23_Witness ==
    /\ pc = "raised"
    /\ solver_calls = 1
    /\ ~solver_held

----------------------------------------------------------------------------
(* The movement clauses in the complete formula *)

\* the number of the variable of robot id, cell c and time t
V(id, c, t) == Lookup(var_map, VarName(id, c[1], c[2], t))

\* the cells of the grid
Cells == (0..(width - 1)) \X (0..(height - 1))

\* the clauses of cnf that add_implication appended, in order; fam is the
\* sequence of the families of the clauses of cnf
KinematicOf(fam) ==
    <<>> \o Flatten([i \in 1..Len(cnf) |-> IF fam[i] = 5 THEN <<cnf[i]>> ELSE <<>>])

KinematicClauses == KinematicOf(<<>> \o ClauseFamilies)

\* the literals of the movement clause of robot id for leaving cell c at time t:
\* not at c at t, or at t + 1 at c or at a cell of the grid next to c
MovementLiterals(id, c, t) ==
    { -V(id, c, t) } \cup { V(id, n, t + 1) : n \in { m \in Cells : Manhattan(c, m) <= 1 } }

\* clause cl is the movement clause with these literals, each once, the negative first
IsMovementClause(cl, lits, first) ==
    /\ cl[1] = first
    /\ Len(cl) = Cardinality(lits)
    /\ { cl[j] : j \in 1..Len(cl) } = lits

\* exactly one clause of K is the movement clause with these literals
ExactlyOne(K, lits, first) ==
    Cardinality({ i \in 1..Len(K) : IsMovementClause(K[i], lits, first) }) = 1

\* the statement of C24 about the movement clauses K
MovementClausesAre(K) ==
    /\ Len(K) = Len(robots) * time_horizon * width * height
    /\ \A r \in 1..Len(robots) : \A c \in Cells :
          /\ \A t \in 0..(time_horizon - 1) :
                /\ ExactlyOne(K, MovementLiterals(robots[r].id, c, t),
                              -V(robots[r].id, c, t))
                /\ V(robots[r].id, c, t + 1) \in MovementLiterals(robots[r].id, c, t)
          /\ \A i \in 1..Len(K) : K[i][1] # -V(robots[r].id, c, time_horizon)

\* C24: in the complete formula the movement clauses are exactly one per robot,
\* time t < T and cell c of the grid, obstacle or not; its literals are -v(a,c,t)
\* and +v(a,n,t+1) for n = c and for the neighbours of c in the grid, obstacles
\* among them, each once; none has an antecedent at time T.
C24_KinematicClauses == pc = "solve" => MovementClausesAre(KinematicClauses)

\* some movement clause of K has the literal v
HasLiteral(K, v) == \E i \in 1..Len(K) : \E j \in 2..Len(K[i]) : K[i][j] = v

\* two robots, two steps, an obstacle next to a free cell
C24_Witness ==
    /\ pc = "solve"
    /\ Len(robots) = 2
    /\ time_horizon = 2
    /\ \E o \in obstacles : \E c \in Cells \ obstacles : Manhattan(o, c) = 1
    /\ \E o \in obstacles : HasLiteral(KinematicClauses, V(robots[1].id, o, 1))

----------------------------------------------------------------------------
(* Obstacle cells in the movement clauses *)

\* the variables of the obstacle cells, for every robot and time
ObstacleVariables ==
    { V(robots[r].id, o, t) : r \in 1..Len(robots), o \in obstacles, t \in 0..time_horizon }

\* the formula in which the movement clauses leave out the consequents that are
\* variables of obstacle cells; fam is the sequence of the families of cnf, ov the
\* variables of the obstacle cells
WithoutObstacleLiterals(fam, ov) ==
    <<>> \o [i \in 1..Len(cnf) |->
                IF fam[i] = 5
                THEN <<cnf[i][1]>> \o SelectSeq(Tail(cnf[i]), LAMBDA lit : lit \notin ov)
                ELSE cnf[i]]

FilteredFormula == WithoutObstacleLiterals(<<>> \o ClauseFamilies, ObstacleVariables)

\* C25: the complete formula and the formula whose movement clauses omit the
\* literals of obstacle cells have the same satisfying assignments.
C25_ObstacleLiteralsNeutral ==
    (pc = "solve" /\ obstacles # {}) => Models(cnf) = Models(FilteredFormula)

\* a satisfiable formula, with moves, in which the omission changes some clause
C25_Witness ==
    /\ pc = "solve"
    /\ obstacles # {}
    /\ time_horizon = 2
    /\ FilteredFormula # cnf
    /\ Models(cnf) # {}

----------------------------------------------------------------------------
(* The planner of main_.py.  Its variable allocator has its own key, its   *)
(* builders pin less and its decoder parses the key differently.           *)

\* f"R{robot_id}_X{x}Y{y}T{t}"
VariantVarName(robot_id, x, y, t) ==
    <<"R">> \o IntStr(robot_id) \o <<"_", "X">> \o IntStr(x) \o <<"Y">> \o IntStr(y)
            \o <<"T">> \o IntStr(t)

\* main_.create_variable
VariantCreateVariable(st, k) ==
    LET key == VariantVarName(k[1], k[2], k[3], k[4])
    IN  IF ~HasKey(st.var_map, key)
        THEN [st EXCEPT !.var_map = Append(@, <<key, st.next_var>>),
                        !.next_var = @ + 1]
        ELSE st

VariantVarOf(st, k) == Lookup(st.var_map, VariantVarName(k[1], k[2], k[3], k[4]))

\* self.cnf.append(clause)
VariantAppendClause(st, lits) ==
    [st EXCEPT !.cnf = Append(@, [j \in 1..Len(lits) |->
                                     lits[j][1] * VariantVarOf(st, lits[j][2])])]

VariantRunOp(st, op) ==
    IF op[1] = "var" THEN VariantCreateVariable(st, op[2]) ELSE VariantAppendClause(st, op[2])

RECURSIVE VariantRunOpsRange(_, _, _, _)
VariantRunOpsRange(st, ops, lo, hi) ==
    IF lo > hi THEN st
    ELSE IF lo = hi THEN VariantRunOp(st, ops[lo])
    ELSE LET mid == (lo + hi) \div 2
             left == VariantRunOpsRange(st, ops, lo, mid)
         IN  IF left.next_var >= 1 THEN VariantRunOpsRange(left, ops, mid + 1, hi) ELSE left

VariantRunOps(st, ops) == VariantRunOpsRange(st, ops, 1, Len(ops))

\* main_.add_initial_positions
VariantInitialPositionsOps(rs, w, h) ==
    Flatten([r \in 1..Len(rs) |->
        <<VarOp(rs[r].id, rs[r].start, 0), ClauseOp(<<Pos(rs[r].id, rs[r].start, 0)>>)>>
        \o Flatten([c \in 1..(w * h) |->
              LET p == GridCells(w, h)[c]
              IN  IF p[1] # rs[r].start[1] \/ p[2] # rs[r].start[2]
                  THEN <<VarOp(rs[r].id, p, 0), ClauseOp(<<Neg(rs[r].id, p, 0)>>)>>
                  ELSE <<>>])])

\* main_.add_goal_positions: the goal at time T, nothing about the other cells
VariantGoalPositionsOps(rs, T) ==
    Flatten([r \in 1..Len(rs) |->
        <<VarOp(rs[r].id, rs[r].goal, T), ClauseOp(<<Pos(rs[r].id, rs[r].goal, T)>>)>>])

\* main_.add_obstacle_constraints, obs the obstacles in iteration order (no test
\* of the bounds)
VariantObstacleOps(obs, rs, T) ==
    Flatten([i \in 1..Len(obs) |-> ObstacleOps(obs[i], rs, T)])

\* main_.add_movement_constraints: for each cell the implication and the pairwise
\* exclusion of its next positions
VariantMovementOps(rs, w, h, T) ==
    LET cells == GridCells(w, h)
    IN  Flatten([r \in 1..Len(rs) |->
          Flatten([t \in 1..T |->
            Flatten([c \in 1..Len(cells) |->
              LET nxt == NextCells(cells[c], w, h)
                  pairs == Combinations2(nxt)
              IN  <<VarOp(rs[r].id, cells[c], t - 1)>>
                  \o [n \in 1..Len(nxt) |-> VarOp(rs[r].id, nxt[n], t)]
                  \o (IF nxt # <<>>
                      THEN <<ClauseOp(<<Neg(rs[r].id, cells[c], t - 1)>>
                                      \o [n \in 1..Len(nxt) |-> Pos(rs[r].id, nxt[n], t)])>>
                           \o [q \in 1..Len(pairs) |->
                                  ClauseOp(<<Neg(rs[r].id, pairs[q][1], t),
                                             Neg(rs[r].id, pairs[q][2], t)>>)]
                      ELSE <<>>)])])])

\* main_.add_collision_avoidance
VariantCollisionOps(rs, w, h, T) ==
    LET cells == GridCells(w, h)
        pairs == Combinations2(rs)
    IN  Flatten([t \in 1..(T + 1) |->
          Flatten([c \in 1..Len(cells) |->
            Flatten([q \in 1..Len(pairs) |->
                << VarOp(pairs[q][1].id, cells[c], t - 1),
                   VarOp(pairs[q][2].id, cells[c], t - 1),
                   ClauseOp(<<Neg(pairs[q][1].id, cells[c], t - 1),
                              Neg(pairs[q][2].id, cells[c], t - 1)>>) >>])])])

\* var_name.replace('R', '').replace('X', ' ').replace('Y', ' ').replace('T', ' ')
VariantReplaced(name) ==
    Flatten([j \in 1..Len(name) |->
        IF name[j] = "R" THEN <<>>
        ELSE IF name[j] \in { "X", "Y", "T" } THEN <<" ">>
        ELSE <<name[j]>>])

\* int(tok) does not raise, for a token of digits, sign and underscores: an
\* underscore is accepted between two digits only
VariantIsInt(tok) ==
    LET d == Unsigned(tok)
    IN  /\ d # <<>>
        /\ IsDigit(d[1]) /\ IsDigit(d[Len(d)])
        /\ \A j \in 1..Len(d) : IsDigit(d[j]) \/ d[j] = "_"
        /\ \A j \in 1..(Len(d) - 1) : ~(d[j] = "_" /\ d[j + 1] = "_")

\* int(tok), the underscores dropped
VariantIntOf(tok) ==
    LET plain == SelectSeq(tok, LAMBDA ch : ch # "_")
    IN  IntOf(plain)

\* main_.decode_solution raises ValueError: the key of some true variable has a
\* part that int() rejects
VariantDecodeRaises(sol) ==
    \E i \in 1..Len(sol) :
        /\ sol[i][2]
        /\ \E part \in { Split(VariantReplaced(sol[i][1]))[j] :
                            j \in 1..Len(Split(VariantReplaced(sol[i][1]))) } :
              ~VariantIsInt(part)

\* main_.decode_solution when nothing raises, from entry i on
RECURSIVE VariantDecodeFrom(_, _, _, _)
VariantDecodeFrom(ps, sol, i, T) ==
    IF i > Len(sol) THEN ps
    ELSE IF sol[i][2]
         THEN LET parts == Split(VariantReplaced(sol[i][1]))
                  robot_id == VariantIntOf(parts[1])
                  x == VariantIntOf(parts[2])
                  y == VariantIntOf(parts[3])
                  t == VariantIntOf(parts[4])
                  old == IF robot_id \in DOMAIN ps THEN ps[robot_id]
                         ELSE [s \in 1..(T + 1) |-> NoPosition]
                  new == [old EXCEPT ![t + 1] = <<x, y>>]
              IN  VariantDecodeFrom([r \in (DOMAIN ps) \cup {robot_id} |->
                                        IF r = robot_id THEN new ELSE ps[r]],
                                    sol, i + 1, T)
         ELSE VariantDecodeFrom(ps, sol, i + 1, T)

----------------------------------------------------------------------------
(* solve_warehouse_problem of main_.py as a state machine (it validates    *)
(* nothing)                                                                *)

\* the grids of the inputs: the last two have cells three steps apart
VariantGridSizes == { <<1, 1>>, <<2, 2>>, <<4, 1>>, <<3, 2>> }

\* one robot anywhere on a grid, or two robots on a grid of at most four cells
VariantInit ==
    /\ \E g \in VariantGridSizes : width = g[1] /\ height = g[2]
    /\ time_horizon \in 0..MaxT
    /\ obstacles \in { O \in SUBSET ((0..(width - 1)) \X (0..(height - 1))) :
                         Cardinality(O) <= MaxObstacles }
    /\ \E ids \in { <<1>>, <<1, 2>> } :
          /\ Len(ids) = 2 => width * height <= 4
          /\ \E sg \in [1..Len(ids) -> ((0..(width - 1)) \X (0..(height - 1)))
                                        \X ((0..(width - 1)) \X (0..(height - 1)))] :
                robots = [i \in 1..Len(ids) |->
                             [id |-> ids[i], start |-> sg[i][1], goal |-> sg[i][2]]]
    /\ pc = "main_.construct"
    /\ constructed = FALSE
    /\ var_map = <<>>
    /\ next_var = 1
    /\ cnf = <<>>
    /\ solution = <<>>
    /\ paths = EmptyDict
    /\ outcome = "running"
    /\ solver_calls = 0
    /\ NoFileCall

\* what a builder step of main_ leaves alone
VariantBuilderFrame ==
    UNCHANGED <<calls, files, inputs, constructed, solution, paths, outcome, solver_calls>>

\* planner = WarehousePathPlanner(width, height, time_horizon)
VariantConstruct ==
    /\ pc = "main_.construct"
    /\ constructed' = TRUE
    /\ SetPlanner(NewPlanner)
    /\ pc' = "main_.add_initial_positions"
    /\ UNCHANGED <<calls, files, inputs, solution, paths, outcome, solver_calls>>

VariantAddInitialPositions ==
    /\ pc = "main_.add_initial_positions"
    /\ SetPlanner(VariantRunOps(ThePlanner, VariantInitialPositionsOps(robots, width, height)))
    /\ pc' = "main_.add_goal_positions"
    /\ VariantBuilderFrame

VariantAddGoalPositions ==
    /\ pc = "main_.add_goal_positions"
    /\ SetPlanner(VariantRunOps(ThePlanner, VariantGoalPositionsOps(robots, time_horizon)))
    /\ pc' = "main_.add_obstacle_constraints"
    /\ VariantBuilderFrame

VariantAddObstacleConstraints ==
    /\ pc = "main_.add_obstacle_constraints"
    /\ \E obs \in Orders(obstacles) :
          SetPlanner(VariantRunOps(ThePlanner, VariantObstacleOps(obs, robots, time_horizon)))
    /\ pc' = "main_.add_movement_constraints"
    /\ VariantBuilderFrame

VariantAddMovementConstraints ==
    /\ pc = "main_.add_movement_constraints"
    /\ SetPlanner(VariantRunOps(ThePlanner,
                                VariantMovementOps(robots, width, height, time_horizon)))
    /\ pc' = "main_.add_collision_avoidance"
    /\ VariantBuilderFrame

VariantAddCollisionAvoidance ==
    /\ pc = "main_.add_collision_avoidance"
    /\ SetPlanner(VariantRunOps(ThePlanner,
                                VariantCollisionOps(robots, width, height, time_horizon)))
    /\ pc' = "main_.add_position_switching_prohibition"
    /\ VariantBuilderFrame

VariantAddPositionSwitchingProhibition ==
    /\ pc = "main_.add_position_switching_prohibition"
    /\ SetPlanner(VariantRunOps(ThePlanner,
                                PositionSwitchingOps(robots, width, height, time_horizon)))
    /\ pc' = "main_.solve"
    /\ VariantBuilderFrame

\* main_'s planner.solve(), and the return of None when it returned None
VariantSolve ==
    /\ pc = "main_.solve"
    /\ solver_calls' = solver_calls + 1
    /\ \E ans \in SolverAnswers(Models(cnf)) :
          IF ans[1]
          THEN /\ solution' = SolutionOf(var_map, ans[2])
               /\ pc' = "main_.decode_solution"
               /\ UNCHANGED outcome
          ELSE /\ solution' = <<>>
               /\ outcome' = "None"
               /\ pc' = "done"
    /\ UNCHANGED <<calls, files, inputs, planner, paths>>

\* main_'s planner.decode_solution(solution) and the return of its result
VariantDecodeSolution ==
    /\ pc = "main_.decode_solution"
    /\ IF VariantDecodeRaises(solution)
       THEN Raise /\ UNCHANGED paths
       ELSE /\ paths' = VariantDecodeFrom(EmptyDict, solution, 1, time_horizon)
            /\ pc' = "done"
            /\ outcome' = "paths"
    /\ UNCHANGED <<calls, files, inputs, planner, solution, solver_calls>>

VariantNext ==
    \/ VariantConstruct
    \/ VariantAddInitialPositions
    \/ VariantAddGoalPositions
    \/ VariantAddObstacleConstraints
    \/ VariantAddMovementConstraints
    \/ VariantAddCollisionAvoidance
    \/ VariantAddPositionSwitchingProhibition
    \/ VariantSolve
    \/ VariantDecodeSolution

VariantSpec == VariantInit /\ [][VariantNext]_vars

\* the number of the variable of robot id, cell c and time t in main_
VariantV(id, c, t) == Lookup(var_map, VariantVarName(id, c[1], c[2], t))

\* the cells at which assignment a has robot id at time t
TrueCellsOf(a, id, t) == { c \in Cells : a[VariantV(id, c, t)] }

\* C26: in every satisfying assignment of the formula main_ built, every robot
\* has at most one true position variable at every time step.
C26_OnePositionPerStep ==
    pc = "main_.solve" =>
        \A a \in Models(cnf) : \A r \in 1..Len(robots) : \A t \in 0..time_horizon :
            Cardinality(TrueCellsOf(a, robots[r].id, t)) <= 1

----------------------------------------------------------------------------
(* Robots that share a start or a goal *)

\* two robots of the list have the same start cell, or the same goal cell
SharedEndpoint ==
    \E i, j \in 1..Len(robots) :
        /\ i # j
        /\ robots[i].start = robots[j].start \/ robots[i].goal = robots[j].goal

\* C27: an input that is in order except that two robots share their start or
\* their goal raises nothing: the call goes through validation and the builders,
\* the solver finds the formula unsatisfiable and None is returned, at every
\* horizon.
C27_SharedEndpointsGiveNone ==
    (SharedEndpoint /\ ~InvalidInput) =>
        /\ pc # "raised" /\ outcome # "ValueError"
        /\ pc # "decode_solution"
        /\ pc = "done" => (outcome = "None" /\ solver_calls = 1 /\ paths = EmptyDict)

\* None has been returned for two robots with different starts and one goal, at
\* the longest horizon
C27_Witness ==
    /\ pc = "done" /\ outcome = "None"
    /\ ~InvalidInput
    /\ Len(robots) = 2
    /\ robots[1].start # robots[2].start
    /\ robots[1].goal = robots[2].goal
    /\ time_horizon = MaxT

----------------------------------------------------------------------------
(* solve_warehouse_problem called again with a longer horizon after it has *)
(* returned a schedule, everything else the same                           *)

\* valid inputs: one or two robots on free cells of a grid with obstacles
MonotoneInit ==
    /\ width \in 1..2 /\ height \in 1..2
    /\ time_horizon \in 0..MaxT
    /\ obstacles \in { O \in SUBSET ((0..(width - 1)) \X (0..(height - 1))) :
                         Cardinality(O) <= MaxObstacles }
    /\ \E ids \in { <<1>>, <<1, 2>> } :
          \E sg \in [1..Len(ids) -> (((0..(width - 1)) \X (0..(height - 1))) \ obstacles)
                                     \X (((0..(width - 1)) \X (0..(height - 1))) \ obstacles)] :
             robots = [i \in 1..Len(ids) |->
                          [id |-> ids[i], start |-> sg[i][1], goal |-> sg[i][2]]]
    /\ AtEntry

\* the caller got a schedule and calls solve_warehouse_problem with the horizon
\* raised by one; solver_calls goes on counting over the calls
CallAgainLonger ==
    /\ pc = "done" /\ outcome = "paths"
    /\ time_horizon <= MaxT
    /\ time_horizon' = time_horizon + 1
    /\ pc' = "validate"
    /\ constructed' = FALSE
    /\ SetPlanner(NewPlanner)
    /\ solution' = <<>>
    /\ paths' = EmptyDict
    /\ outcome' = "running"
    /\ UNCHANGED <<width, height, robots, obstacles, solver_calls, calls, files>>

MonotoneNext ==
    \/ Validate
    \/ AddInitialPositions
    \/ AddGoalPositions
    \/ AddObstacleConstraints
    \/ AddMovementConstraints
    \/ AddCollisionAvoidance
    \/ AddPositionSwitchingProhibition
    \/ Solve
    \/ DecodeSolution
    \/ CallAgainLonger

MonotoneSpec == MonotoneInit /\ [][MonotoneNext]_vars

\* C28: a call that follows a call which returned a schedule for a shorter
\* horizon on the same input returns a schedule too: it does not raise and it
\* does not return None.
C28_MonotoneInHorizon ==
    /\ pc = "raised" => solver_calls = 0
    /\ (pc = "done" /\ solver_calls >= 2) => outcome = "paths"

\* the third call in a row has returned a schedule, its robots waiting at the end
C28_Witness ==
    /\ pc = "done" /\ outcome = "paths"
    /\ solver_calls = 3
    /\ Len(robots) = 2
    /\ \A i \in 1..Len(robots) :
          /\ robots[i].id \in DOMAIN paths
          /\ paths[robots[i].id][time_horizon] = paths[robots[i].id][time_horizon + 1]

----------------------------------------------------------------------------
(* Horizon zero *)

\* every robot starts on its goal and no two robots start on one cell
StandingStill ==
    /\ \A i \in 1..Len(robots) : robots[i].start = robots[i].goal
    /\ \A i, j \in 1..Len(robots) : i # j => robots[i].start # robots[j].start

\* C29: with T = 0 on an input that is otherwise in order the call ends without
\* an error; it returns a schedule exactly when every robot starts on its goal
\* and the starts are pairwise different, and the schedule then holds for each
\* robot the one-element path of its start; otherwise it returns None.
C29_HorizonZero ==
    (time_horizon = 0 /\ ~InvalidInput /\ pc \in { "done", "raised" }) =>
        /\ pc = "done"
        /\ IF StandingStill
           THEN /\ outcome = "paths"
                /\ DOMAIN paths = InputIds
                /\ \A i \in 1..Len(robots) : paths[robots[i].id] = <<robots[i].start>>
           ELSE outcome = "None"

----------------------------------------------------------------------------
(* Following *)

\* in schedule s some robot moves into the cell another robot leaves in the same
\* step, and that robot moves to a cell other than the follower's
Following(s) ==
    \E i, j \in 1..Len(robots) : \E t \in 1..time_horizon :
        /\ i # j
        /\ s[j][t + 1] = s[i][t]
        /\ s[j][t] # s[j][t + 1]
        /\ s[i][t + 1] # s[i][t]
        /\ s[i][t + 1] # s[j][t]

\* the clauses that forbid two robots in one cell at one time, as sets of literals
VertexClauses ==
    { { -V(robots[i].id, c, t), -V(robots[j].id, c, t) } :
         i \in 1..Len(robots), j \in 1..Len(robots), c \in Cells, t \in 0..time_horizon }

\* the clauses that forbid two robots to exchange two cells next to each other in
\* one step, as sets of literals
SwapClauses ==
    UNION { { { -V(robots[i].id, c, t), -V(robots[j].id, d, t),
                -V(robots[i].id, d, t + 1), -V(robots[j].id, c, t + 1) } :
              c \in Cells, d \in Cells, t \in 0..(time_horizon - 1) } :
            i \in 1..Len(robots), j \in 1..Len(robots) }

\* every clause of the two collision builders is a clause of vc or of sc
CollisionClausesIn(fam, vc, sc) ==
    \A k \in 1..Len(cnf) :
        /\ fam[k] = 6 => { cnf[k][n] : n \in 1..Len(cnf[k]) } \in vc
        /\ fam[k] = 7 => { cnf[k][n] : n \in 1..Len(cnf[k]) } \in sc

\* assignment a satisfies every clause of the formula
SatisfiesAll(a) == \A k \in 1..Len(cnf) : SatClause(a, cnf[k])

\* C30: a schedule in which a robot follows another into the cell it leaves, and
\* which has no two robots in one cell and no exchange, violates no clause of
\* the formula; the clauses of the two collision builders are clauses against
\* two robots in one cell and against exchanges only.
C30_FollowingPermitted ==
    pc = "solve" =>
        /\ \A s \in ValidSchedules : Following(s) => SatisfiesAll(EncodeSchedule(s))
        /\ CollisionClausesIn(<<>> \o ClauseFamilies, VertexClauses, SwapClauses)

\* some schedule of the input has a robot following another
C30_Witness ==
    /\ pc = "solve"
    /\ \E s \in ValidSchedules : Following(s) /\ SatisfiesAll(EncodeSchedule(s))

====
